---- MODULE Spec2Model ----
(***************************************************************************)
(* Outback MATE3 integration: the datagram decoder and device registry of  *)
(* the two variants of class OutbackMate3:                                 *)
(*   root  : src/__init__.py                                               *)
(*   cc    : src/custom_components/outback_mate3/__init__.py               *)
(* with the reads of the cc sensors (sensor.py) and the UDP listener of    *)
(* both variants.  Spec feeds datagrams to the decoders; ListenerSpec runs *)
(* start_listening, stop_listening and the _listen tasks; RestartSpec adds *)
(* start_listening after stop_listening; ThreadSpec runs the cc record     *)
(* handlers in the executor thread next to a sensor read.                  *)
(*                                                                         *)
(* Text is modelled as a sequence of one-character strings, so that the    *)
(* regular expressions, str(), split(), strip(), int() and float() of the  *)
(* code are computed character by character.  Numeric tokens of the input  *)
(* alphabet are decimal integer literals; a Python float is represented by *)
(* the integer it equals, and the two root fields that the code divides by *)
(* ten are kept in tenths.                                                 *)
(***************************************************************************)
EXTENDS Integers, Sequences, FiniteSets, TLC

VARIABLES
    variant,              \* "root" or "cc": which OutbackMate3 class is running
    inverters,            \* root: self.inverters           slot -> dict
    charge_controllers,   \* root: self.charge_controllers  slot -> dict
    device_counts,        \* root: self.device_counts       type -> count
    device_data,          \* cc: self.device_data           key  -> list
    discovered_devices,   \* cc: self.discovered_devices    set of identities
    discovery_info,       \* cc: hass.data[DOMAIN][entry_id + "_discovery"]
    add_entities_callback,\* cc: self._add_entities_callback is set
    setup_tasks,          \* cc: the identity of each hass.create_task(forward setup), in order
    setup_pc,             \* cc: how far async_setup_entry has come
    ndatagrams,           \* number of datagrams handled so far
    last,                 \* the operation of the last step and its input
    running,              \* self._running
    self_socket,          \* self._socket: NoSocket, or the task that created it
    sock,                 \* the socket each _listen task created: none/open/bound/closed
    pc,                   \* where each _listen task is
    waiting_on,           \* the socket the pending receive of each task was issued on
    inflight,             \* cc: the _process_data jobs of each task in the executor
    nerrors,              \* number of receive errors so far
    erred,                \* the task has had a receive error and not waited again yet
    start_result,         \* what the call that created each task reported
    stopped,              \* stop_listening has been called
    heap,                 \* cc, ThreadSpec: the list objects, by object identity
    refs,                 \* cc, ThreadSpec: the list object device_data holds for each key
    writer,               \* cc: the _process_inverter / _process_charge_controller call under way
    reader                \* cc: the native_value call under way

\* The registry and its history
rvars == <<variant, inverters, charge_controllers, device_counts, device_data,
           discovered_devices, discovery_info, add_entities_callback,
           setup_tasks, setup_pc, ndatagrams, last>>

\* The listener
lvars == <<running, self_socket, sock, pc, waiting_on, inflight, nerrors, erred,
           start_result, stopped>>

\* The objects behind device_data, and the two threads that use them
tvars == <<heap, refs, writer, reader>>

vars == <<rvars, lvars, tvars>>

-----------------------------------------------------------------------------
(* Text helpers *)

EmptyDict == [k \in {} |-> 0]

DictPut(d, k, v) == [x \in DOMAIN d \cup {k} |-> IF x = k THEN v ELSE d[x]]

Digits == {"0", "1", "2", "3", "4", "5", "6", "7", "8", "9"}

HexUpper == Digits \cup {"A", "B", "C", "D", "E", "F"}

Whitespace == {" ", "\n", "\r", "\t"}

DigitVal(c) ==
    CASE c = "0" -> 0 [] c = "1" -> 1 [] c = "2" -> 2 [] c = "3" -> 3
      [] c = "4" -> 4 [] c = "5" -> 5 [] c = "6" -> 6 [] c = "7" -> 7
      [] c = "8" -> 8 [] c = "9" -> 9

DigitChar(n) ==
    CASE n = 0 -> "0" [] n = 1 -> "1" [] n = 2 -> "2" [] n = 3 -> "3"
      [] n = 4 -> "4" [] n = 5 -> "5" [] n = 6 -> "6" [] n = 7 -> "7"
      [] n = 8 -> "8" [] n = 9 -> "9"

\* The one element of a one-element set.  Only({e(x) : x \in {v}}) is e with
\* x naming the value v, computed once.
Only(S) == CHOOSE x \in S : TRUE

\* s[i:] of Python, 0-based i
Drop(s, i) == IF i >= Len(s) THEN <<>> ELSE SubSeq(s, i + 1, Len(s))

\* s[i:j] of Python, 0-based, j exclusive
Slice(s, i, j) ==
    LET hi == IF j > Len(s) THEN Len(s) ELSE j
    IN  IF i >= hi THEN <<>> ELSE SubSeq(s, i + 1, hi)

\* The positions at which the sequence of booleans flags holds TRUE, in
\* increasing order
Where(flags) == SelectSeq([i \in 1..Len(flags) |-> i], LAMBDA i : flags[i])

\* str.strip(): the text between the first and the last character that is
\* not whitespace
Strip(s) ==
    Only({ IF idx = <<>> THEN <<>> ELSE SubSeq(s, idx[1], idx[Len(idx)]) :
           idx \in {Where([i \in 1..Len(s) |-> s[i] \notin Whitespace])} })

\* The concatenation of a sequence of texts
RECURSIVE Flatten(_)
Flatten(ss) ==
    IF ss = <<>> THEN <<>>
    ELSE IF Len(ss) = 1 THEN ss[1]
    ELSE LET h == Len(ss) \div 2
         IN  Flatten(SubSeq(ss, 1, h)) \o Flatten(SubSeq(ss, h + 1, Len(ss)))

\* The pieces of s around the delimiters that start at the positions
\* starts (in increasing order), the one at i being dlen[i] characters long;
\* empty pieces are kept
PiecesBetween(s, starts, dlen) ==
    LET ends == Append(starts, Len(s) + 1)
    IN  [k \in 1..Len(ends) |->
           SubSeq(s, IF k = 1 THEN 1 ELSE ends[k - 1] + dlen[ends[k - 1]],
                  ends[k] - 1)]

\* str.startswith(c) for a one-character prefix
StartsWith(s, c) == s # <<>> /\ s[1] = c

\* A replace that removes nothing: the variant against which C6 is tested
RemoveNone(s, c) == s

\* str.replace(c, '') for a one-character c
Remove(s, c) == SelectSeq(s, LAMBDA x : x # c)

\* str.split(sep) for a one-character sep: every piece, the empty ones included
Split(s, sep) ==
    PiecesBetween(s, Where([i \in 1..Len(s) |-> s[i] = sep]),
                  [i \in 1..Len(s) |-> 1])

\* re.split(']<|><|>', s).  A match starts at a ']' followed by '<' or at a
\* '>'; it takes the following '<' when there is one ('><' is tried before
\* '>').  No match starts at the '<' a match ends with, so matches never
\* overlap and every such position is a match.
re_split(s) ==
    LET follows(i) == i < Len(s) /\ s[i + 1] = "<"
    IN  PiecesBetween(s,
            Where([i \in 1..Len(s) |-> s[i] = ">" \/ (s[i] = "]" /\ follows(i))]),
            [i \in 1..Len(s) |-> IF follows(i) THEN 2 ELSE 1])

RECURSIVE DigitsValue(_, _)
DigitsValue(s, acc) ==
    IF s = <<>> THEN acc ELSE DigitsValue(Tail(s), 10 * acc + DigitVal(Head(s)))

\* The value of an optional sign followed by the text body: one or more
\* decimal digits, anything else raises ValueError (ok = FALSE)
ParseDigits(neg, body) ==
    IF body # <<>> /\ \A i \in 1..Len(body) : body[i] \in Digits
    THEN [ok |-> TRUE, v |-> (IF neg THEN 0 - 1 ELSE 1) * DigitsValue(body, 0)]
    ELSE [ok |-> FALSE, v |-> 0]

\* int(tok): surrounding whitespace is ignored, then an optional sign and
\* the digits
ParseInt(tok) ==
    Only({ ParseDigits(StartsWith(t, "-"),
                       IF StartsWith(t, "-") \/ StartsWith(t, "+") THEN Tail(t) ELSE t) :
           t \in {Strip(tok)} })

\* float(tok) on the integer literals of the input alphabet
ParseFloat(tok) == ParseInt(tok)

\* int(values[i]), 0-based i >= 0: IndexError (ok = FALSE) past the end
IntAt(values, i) ==
    IF i < Len(values) THEN ParseInt(values[i + 1]) ELSE [ok |-> FALSE, v |-> 0]

\* float(values[i])
FloatAt(values, i) ==
    IF i < Len(values) THEN ParseFloat(values[i + 1]) ELSE [ok |-> FALSE, v |-> 0]

\* str(n) for an integer n >= 0
RECURSIVE IntToStr(_)
IntToStr(n) ==
    IF n < 10 THEN <<DigitChar(n)>>
    ELSE IntToStr(n \div 10) \o <<DigitChar(n % 10)>>

\* n & (1 << b) != 0 for n >= 0
BitSet(n, b) == (n \div (2 ^ b)) % 2 = 1

\* sep.join(fields)
Join(fields, sep) ==
    IF fields = <<>> THEN <<>>
    ELSE Flatten([i \in 1..(2 * Len(fields) - 1) |->
                    IF i % 2 = 1 THEN fields[(i + 1) \div 2] ELSE <<sep>>])

-----------------------------------------------------------------------------
(* Bytes: a datagram is a sequence of bytes, each a printable character, a  *)
(* line feed, or the byte 0xFF (written "0xFF"), which no UTF-8 text holds. *)

InvalidByte == "0xFF"

\* str(data) of a bytes object: b'...' with a line feed and a non-ASCII
\* byte escaped (the input alphabet holds no quote and no backslash)
ReprByte(b) ==
    CASE b = InvalidByte -> <<"\\", "x", "f", "f">>
      [] b = "\n" -> <<"\\", "n">>
      [] OTHER -> <<b>>

ReprBody(data) == Flatten([i \in 1..Len(data) |-> ReprByte(data[i])])

PyStrOfBytes(data) == <<"b", "'">> \o ReprBody(data) \o <<"'">>

\* data.decode(): UnicodeDecodeError (ok = FALSE) on a byte that is not UTF-8
Decode(data) ==
    IF \E i \in 1..Len(data) : data[i] = InvalidByte
    THEN [ok |-> FALSE, v |-> <<>>]
    ELSE [ok |-> TRUE, v |-> data]

-----------------------------------------------------------------------------
(* Root variant: src/__init__.py *)

\* A run of dict stores inv[f] = v in program order; the first statement
\* whose right-hand side raises ends the run, the stores before it stay.
RECURSIVE ApplyWrites(_, _)
ApplyWrites(d, ws) ==
    IF ws = <<>> THEN [d |-> d, ok |-> TRUE]
    ELSE IF ~Head(ws).ok THEN [d |-> d, ok |-> FALSE]
    ELSE ApplyWrites(DictPut(d, Head(ws).f, Head(ws).v), Tail(ws))

\* inv[f] = r, where evaluating r may raise
W(f, r) == [f |-> f, ok |-> r.ok, v |-> r.v]

\* r * k
Scaled(r, k) == [ok |-> r.ok, v |-> r.v * k]

\* an expression that cannot raise
Const(v) == [ok |-> TRUE, v |-> v]

\* ac_factor = 2 if is_240v else 2
ac_factor(is_240v) == IF is_240v THEN 2 ELSE 2

\* A lookup whose default is the label of code 0: the variant against which
\* C12 is tested
inverter_mode_label_first_entry(code) == IF code = 2 THEN "inverting" ELSE "off"

inverter_mode_label(code) ==
    CASE code = 0 -> "off" [] code = 1 -> "search" [] code = 2 -> "inverting"
      [] code = 3 -> "charging" [] code = 4 -> "silent" [] code = 5 -> "floating"
      [] code = 6 -> "equalizing" [] code = 7 -> "charger-off"
      [] code = 8 -> "charger-off" [] code = 9 -> "selling"
      [] code = 10 -> "pass-through" [] code = 11 -> "slave-on"
      [] code = 12 -> "slave-off" [] code = 14 -> "offsetting"
      [] code = 90 -> "inverter-error" [] code = 91 -> "ags-error"
      [] code = 92 -> "comm-error" [] OTHER -> "unknown"

ac_mode_label(code) ==
    CASE code = 0 -> "no-ac" [] code = 1 -> "ac-drop" [] code = 2 -> "ac-use"
      [] OTHER -> "unknown"

charger_mode_label(code) ==
    CASE code = 0 -> "silent" [] code = 1 -> "float" [] code = 2 -> "bulk"
      [] code = 3 -> "absorb" [] code = 4 -> "equalize" [] OTHER -> "unknown"

\* int((a + b) * 110.0)
OutputPower(a, b) == [ok |-> a.ok /\ b.ok, v |-> (a.v + b.v) * 110]

\* {...}.get(int(values[i]), 'unknown') for the three lookup tables
InverterMode(r) == [ok |-> r.ok, v |-> inverter_mode_label(r.v)]

AcMode(r) == [ok |-> r.ok, v |-> ac_mode_label(r.v)]

ChargerMode(r) == [ok |-> r.ok, v |-> charger_mode_label(r.v)]

\* A slot map rebuilt for every record: the variant against which C9 is tested
FreshSlots(m, no) == DictPut(EmptyDict, no, EmptyDict)

\* if no not in self.inverters: self.inverters[no] = {}
EnsureSlot(m, no) == IF no \in DOMAIN m THEN m ELSE DictPut(m, no, EmptyDict)

\* The stores of _process_inverter after misc is read, in program order
InverterWrites(values, is_grid, f) ==
    << W("ac_source", Const(IF is_grid THEN "grid" ELSE "generator")),
       W("l1_inverter_current", FloatAt(values, 2)),
       W("l1_charger_current", FloatAt(values, 3)),
       W("l1_buy_current", FloatAt(values, 4)),
       W("l1_sell_current", FloatAt(values, 5)),
       W("l1_ac_input_voltage", Scaled(FloatAt(values, 6), f)),
       W("l1_ac_output_voltage", Scaled(FloatAt(values, 8), f)),
       W("l2_inverter_current", FloatAt(values, 2 + 7)),
       W("l2_charger_current", FloatAt(values, 3 + 7)),
       W("l2_buy_current", FloatAt(values, 4 + 7)),
       W("l2_sell_current", FloatAt(values, 5 + 7)),
       W("l2_ac_input_voltage", Scaled(FloatAt(values, 6 + 7), f)),
       W("l2_ac_output_voltage", Scaled(FloatAt(values, 8 + 7), f)),
       W("output_power", OutputPower(FloatAt(values, 2), FloatAt(values, 2 + 7))),
       W("inverter_mode", InverterMode(IntAt(values, 16))),
       W("ac_mode", AcMode(IntAt(values, 18))) >>

\* The slot map m with slot no replaced by the outcome r of a run of stores
StoreSlot(m, no, r) == [m |-> DictPut(m, no, r.d), ok |-> r.ok]

\* _process_inverter(no, values): the inverters map afterwards, and whether
\* the call returned (ok) or raised
Root_process_inverter(invs, no, values) ==
    Only({ IF ~misc.ok THEN [m |-> m0, ok |-> FALSE]
           ELSE StoreSlot(m0, no,
                    ApplyWrites(m0[no],
                        InverterWrites(values, BitSet(misc.v, 6),
                                       ac_factor(BitSet(misc.v, 7))))) :
           m0 \in {EnsureSlot(invs, no)}, misc \in {IntAt(values, 20)} })

\* cc_amps = float(values[3]) + (float(values[7]) / 10), in tenths
CcAmps(a, b) == [ok |-> a.ok /\ b.ok, v |-> 10 * a.v + b.v]

\* The stores of _process_charge_controller after pv_current and pv_voltage
\* are read; output_current and battery_voltage are kept in tenths (the code
\* divides by 10)
ChargeControllerWrites(values, pv_current, pv_voltage) ==
    << W("pv_current", Const(pv_current)),
       W("pv_voltage", Const(pv_voltage)),
       W("pv_power", Const(pv_voltage * pv_current)),
       W("output_current", CcAmps(FloatAt(values, 3), FloatAt(values, 7))),
       W("charger_mode", ChargerMode(IntAt(values, 10))),
       W("battery_voltage", FloatAt(values, 11)) >>

\* _process_charge_controller(no, values)
Root_process_charge_controller(ccs, no, values) ==
    Only({ IF ~(pv_current.ok /\ pv_voltage.ok) THEN [m |-> m0, ok |-> FALSE]
           ELSE StoreSlot(m0, no,
                    ApplyWrites(m0[no],
                        ChargeControllerWrites(values, pv_current.v, pv_voltage.v))) :
           m0 \in {EnsureSlot(ccs, no)},
           pv_current \in {IntAt(values, 4)}, pv_voltage \in {IntAt(values, 5)} })

DictGet(d, k, default) == IF k \in DOMAIN d THEN d[k] ELSE default

\* A dispatch that takes every type but 3 for an inverter: the variant
\* against which C13 is tested
Root_dispatch_inverter_by_default(st, counts, device_type, no, values) ==
    IF device_type = 3
    THEN Only({ [inv |-> st.inv, cc |-> rc.m, counts |-> counts, ok |-> rc.ok] :
                rc \in {Root_process_charge_controller(st.cc, no, values)} })
    ELSE Only({ [inv |-> ri.m, cc |-> st.cc, counts |-> counts, ok |-> ri.ok] :
                ri \in {Root_process_inverter(st.inv, no, values)} })

\* The dispatch of _process_device on device_type, the counter being
\* stored already
Root_dispatch(st, counts, device_type, no, values) ==
    IF device_type = 6
    THEN Only({ [inv |-> ri.m, cc |-> st.cc, counts |-> counts, ok |-> ri.ok] :
                ri \in {Root_process_inverter(st.inv, no, values)} })
    ELSE IF device_type = 3
    THEN Only({ [inv |-> st.inv, cc |-> rc.m, counts |-> counts, ok |-> rc.ok] :
                rc \in {Root_process_charge_controller(st.cc, no, values)} })
    ELSE [inv |-> st.inv, cc |-> st.cc, counts |-> counts, ok |-> TRUE]

\* Slot numbers taken after the slots already held instead of from the
\* per-datagram counter: the variant against which C14 is tested
Root_count_after_held(st, device_type, values) ==
    Only({ Root_dispatch(st, DictPut(st.counts, device_type, no), device_type,
                         no, values) :
           no \in {Cardinality(DOMAIN (IF device_type = 6 THEN st.inv ELSE st.cc)) + 1} })

\* no = self.device_counts.get(device_type, 0) + 1;
\* self.device_counts[device_type] = no
Root_count(st, device_type, values) ==
    Only({ Root_dispatch(st, DictPut(st.counts, device_type, no), device_type,
                         no, values) :
           no \in {DictGet(st.counts, device_type, 0) + 1} })

\* _process_device(device) on the registry st = [inv, cc, counts, ok]
Root_process_device(st, device) ==
    Only({ Only({ IF ~device_type.ok THEN [st EXCEPT !.ok = FALSE]
                  ELSE Root_count(st, device_type.v, values) :
                  device_type \in {IntAt(values, 1)} }) :
           values \in {Split(device, ",")} })

\* for device in devices: self._process_device(device), left by the first
\* exception (caught by the except clause of _process_data)
RECURSIVE Root_device_loop(_, _)
Root_device_loop(st, devices) ==
    IF devices = <<>> \/ ~st.ok THEN st
    ELSE Root_device_loop(Root_process_device(st, Head(devices)), Tail(devices))

\* devices = filter(lambda x: x.startswith('0'), devices)
Root_filter_devices(devices) == SelectSeq(devices, LAMBDA x : StartsWith(x, "0"))

\* _process_data without self.device_counts = {}: the variant against which
\* C7 is tested
Root_process_data_keep_counts(st, data) ==
    Root_device_loop([inv |-> st.inv, cc |-> st.cc, counts |-> st.counts,
                      ok |-> TRUE],
                     Root_filter_devices(Tail(re_split(PyStrOfBytes(data)))))

\* _process_data(data) on the registry [inv, cc, counts]
Root_process_data(st, data) ==
    Root_device_loop([inv |-> st.inv, cc |-> st.cc, counts |-> EmptyDict,
                      ok |-> TRUE],
                     Root_filter_devices(Tail(re_split(PyStrOfBytes(data)))))

-----------------------------------------------------------------------------
(* custom_components variant: src/custom_components/outback_mate3/__init__.py *)

\* f"{n}" for an integer n
PyStrOfInt(n) == IF n < 0 THEN <<"-">> \o IntToStr(0 - n) ELSE IntToStr(n)

\* A header pattern that asks for the brackets and the hyphen only: the
\* variant against which C4 is tested
HeaderMatchAnyDigits(message) ==
    /\ Len(message) >= 15
    /\ message[1] = "["
    /\ message[8] = "-"
    /\ message[15] = "]"

\* re.match(r'^\[[0-9A-F]{6}-[0-9A-F]{6}\]', message)
HeaderMatch(message) ==
    /\ Len(message) >= 15
    /\ message[1] = "["
    /\ \A i \in 2..7 : message[i] \in HexUpper
    /\ message[8] = "-"
    /\ \A i \in 9..14 : message[i] \in HexUpper
    /\ message[15] = "]"

\* re.match(r'\[([0-9A-F]{6}-[0-9A-F]{6})', header): group 1 when it matches
MacMatch(header) ==
    IF /\ Len(header) >= 14
       /\ header[1] = "["
       /\ \A i \in 2..7 : header[i] \in HexUpper
       /\ header[8] = "-"
       /\ \A i \in 9..14 : header[i] \in HexUpper
    THEN [ok |-> TRUE, v |-> SubSeq(header, 2, 14)]
    ELSE [ok |-> FALSE, v |-> <<>>]

\* The elements of a device_data list: the int 0 of [0] * n, a float, or a str
IntVal(n) == [t |-> "int", n |-> n, s |-> <<>>]

FloatVal(n) == [t |-> "float", n |-> n, s |-> <<>>]

StrVal(s) == [t |-> "str", n |-> 0, s |-> s]

\* [0] * n
Zeros(n) == [i \in 1..n |-> IntVal(0)]

InverterKeyTag == <<"_", "i", "n", "v", "e", "r", "t", "e", "r", "_">>

CcKeyTag == <<"_", "c", "c", "_">>

\* device_data[i] = float(values[i]) for i in the given order; the first
\* failing conversion raises and ends the run
RECURSIVE StoreFloats(_, _, _)
StoreFloats(d, values, idxs) ==
    IF idxs = <<>> THEN [d |-> d, ok |-> TRUE]
    ELSE Only({ IF ~x.ok THEN [d |-> d, ok |-> FALSE]
                ELSE StoreFloats([d EXCEPT ![Head(idxs) + 1] = FloatVal(x.v)],
                                 values, Tail(idxs)) :
                x \in {FloatAt(values, Head(idxs))} })

\* A store of the list as far as it was filled when float(..) raised: the
\* variant against which C25 is tested
StoreAsFarAsFilled(dd, device_key, power) == DictPut(dd, device_key, power.d)

\* self.device_data[device_key] = device_data unless the stores raised
StoreUnlessRaised(dd, device_key, power) ==
    IF power.ok THEN DictPut(dd, device_key, power.d) ELSE dd

\* A body that fills a new list for every record (replace-on-slot): the
\* variant against which C24 is tested
CC_inverter_body_on_new_list(dd, values, device_key, d0) ==
    IF Len(values) >= 15
    THEN IF values[1] = <<"1">>
         THEN DictPut(dd, device_key,
                      [Zeros(15) EXCEPT ![12] = StrVal(values[12]),
                                        ![13] = StrVal(values[13])])
         ELSE IF values[1] = <<"2">>
         THEN StoreUnlessRaised(dd, device_key,
                      StoreFloats(Zeros(15), values, <<3, 4, 5, 6, 7, 8, 9, 10>>))
         ELSE DictPut(dd, device_key, Zeros(15))
    ELSE dd

\* The body of _process_inverter on the copy d0 of the stored list
CC_inverter_body(dd, values, device_key, d0) ==
    IF Len(values) >= 15
    THEN IF values[1] = <<"1">>
         THEN DictPut(dd, device_key,
                      [d0 EXCEPT ![12] = StrVal(values[12]), ![13] = StrVal(values[13])])
         ELSE IF values[1] = <<"2">>
         THEN StoreUnlessRaised(dd, device_key,
                      StoreFloats(d0, values, <<3, 4, 5, 6, 7, 8, 9, 10>>))
         ELSE DictPut(dd, device_key, d0)
    ELSE dd

\* _process_inverter(device_no, values, mac_address): self.device_data after it
CC_process_inverter(dd, device_no, values, mac_address) ==
    Only({ CC_inverter_body(dd, values, device_key, DictGet(dd, device_key, Zeros(15))) :
           device_key \in {mac_address \o InverterKeyTag \o PyStrOfInt(device_no)} })

\* The body of _process_charge_controller on the copy d0 of the stored list
CC_charge_controller_body(dd, values, device_key, d0) ==
    IF Len(values) >= 8
    THEN IF values[1] = <<"4">>
         THEN DictPut(dd, device_key, [d0 EXCEPT ![8] = StrVal(values[8])])
         ELSE IF values[1] = <<"5">>
         THEN StoreUnlessRaised(dd, device_key, StoreFloats(d0, values, <<3, 4, 5, 6>>))
         ELSE DictPut(dd, device_key, d0)
    ELSE dd

\* _process_charge_controller(device_no, values, mac_address)
CC_process_charge_controller(dd, device_no, values, mac_address) ==
    Only({ CC_charge_controller_body(dd, values, device_key,
                                     DictGet(dd, device_key, Zeros(10))) :
           device_key \in {mac_address \o CcKeyTag \o PyStrOfInt(device_no)} })

\* values = [v for v in device_msg.split(',') if v]
NonEmptyValues(device_msg) == SelectSeq(Split(device_msg, ","), LAMBDA v : v # <<>>)

\* The dispatch on device_type in the loop of _process_data
CC_dispatch(dd, device_type, device_no, values, mac_address) ==
    IF ~device_type.ok \/ ~device_no.ok THEN dd
    ELSE IF device_type.v \in {1, 2}
         THEN CC_process_inverter(dd, device_no.v, values, mac_address)
    ELSE IF device_type.v \in {4, 5}
         THEN CC_process_charge_controller(dd, device_no.v, values, mac_address)
    ELSE dd

\* The body of the loop over devices in _process_data (lines 223-255)
CC_process_device_msg(dd, device_msg, mac_address) ==
    IF device_msg = <<>> THEN dd
    ELSE Only({ IF Len(values) < 3 THEN dd
                ELSE CC_dispatch(dd, IntAt(values, 0), IntAt(values, 1), values,
                                 mac_address) :
                values \in {NonEmptyValues(device_msg)} })

RECURSIVE CC_device_loop(_, _, _)
CC_device_loop(dd, devices, mac_address) ==
    IF devices = <<>> THEN dd
    ELSE CC_device_loop(CC_process_device_msg(dd, Head(devices), mac_address),
                        Tail(devices), mac_address)

NoDiscoveryInfo == [present |-> FALSE, mac_address |-> <<>>]

DefaultMac == <<"d", "e", "f", "a", "u", "l", "t">>

\* The MATE3 registration of _process_data (lines 193-219) on the state
\* st = [dd, discovered, info, callback, tasks]
CC_register(st, mac_address) ==
    IF mac_address \notin st.discovered
    THEN [st EXCEPT !.discovered = @ \cup {mac_address},
                    !.info = [present |-> TRUE, mac_address |-> mac_address],
                    !.tasks = IF st.callback THEN Append(@, mac_address) ELSE @]
    ELSE st

\* _process_data from the registration on, the MAC address being extracted
CC_register_and_loop(st, devices, mac_address) ==
    [CC_register(st, mac_address) EXCEPT
        !.dd = CC_device_loop(st.dd, devices, mac_address)]

\* _process_data from re.split on, the message having matched the header
\* pattern
CC_split_and_process(st, pieces, mac_match) ==
    IF ~mac_match.ok THEN st
    ELSE CC_register_and_loop(st, Tail(pieces), Remove(mac_match.v, "-"))

\* _process_data(data, entry_id)
CC_process_data(st, data) ==
    Only({ IF ~dec.ok THEN st
           ELSE Only({ IF ~HeaderMatch(message) THEN st
                       ELSE Only({ CC_split_and_process(st, pieces, MacMatch(Head(pieces))) :
                                   pieces \in {re_split(message)} }) :
                       message \in {Strip(dec.v)} }) :
           dec \in {Decode(data)} })

\* The device part of handle_connection (lines 291-300) on the state st1
CC_connection_device(st1, fields, device_no, mac_address) ==
    IF Len(fields) < 2 THEN st1
    ELSE IF ~device_no.ok THEN st1
    ELSE IF fields[1] \in {<<"1">>, <<"2">>}
         THEN [st1 EXCEPT !.dd = CC_process_inverter(st1.dd, device_no.v,
                                                     fields, mac_address)]
    ELSE IF fields[1] \in {<<"4">>, <<"5">>}
         THEN [st1 EXCEPT !.dd = CC_process_charge_controller(st1.dd, device_no.v,
                                                     fields, mac_address)]
    ELSE st1

\* handle_connection after the header check.  setup_sensors (lines 314-336)
\* names INVERTER_SENSORS and OutbackInverterSensor, which this module never
\* imports: with a callback set it raises NameError, which the outer except
\* clause of handle_connection catches.
CC_connection_body(st, message, mac_address, first) ==
    IF first /\ st.callback THEN [st EXCEPT !.info.mac_address = mac_address]
    ELSE Only({ CC_connection_device(
                    IF first THEN [st EXCEPT !.info.mac_address = mac_address] ELSE st,
                    fields, IntAt(fields, 1), mac_address) :
                fields \in {Split(Drop(message, 16), ",")} })

\* handle_connection(reader, writer) with data the bytes read
CC_handle_connection(st, data) ==
    Only({ IF ~dec.ok THEN st
           ELSE Only({ IF ~HeaderMatch(message) THEN st
                       ELSE CC_connection_body(st, message,
                                Remove(Slice(message, 1, 15), "-"),
                                st.info.present /\ st.info.mac_address = DefaultMac) :
                       message \in {Strip(dec.v)} }) :
           dec \in {Decode(data)} })

-----------------------------------------------------------------------------
(* Inputs: a datagram is described by the text before its header, the       *)
(* header, its device records (each a list of field tokens) and the text    *)
(* after the last record; Wire renders the description as the bytes sent.   *)

T(n) == IntToStr(n)

WireRecords(recs) ==
    Flatten([i \in 1..Len(recs) |-> <<"<">> \o Join(recs[i], ",") \o <<">">>])

Wire(p) == p.lead \o p.hdr \o WireRecords(p.recs) \o p.trail

Datagram(lead, hdr, recs, trail) ==
    [lead |-> lead, hdr |-> hdr, recs |-> recs, trail |-> trail]

HeaderA == <<"[", "A", "A", "B", "B", "C", "C", "-", "D", "D", "E", "E", "F", "F", "]">>

HeaderB == <<"[", "1", "1", "2", "2", "3", "3", "-", "4", "4", "5", "5", "6", "6", "]">>

MacA == <<"A", "A", "B", "B", "C", "C", "D", "D", "E", "E", "F", "F">>

MacB == <<"1", "1", "2", "2", "3", "3", "4", "4", "5", "5", "6", "6">>

\* Headers that are not of the form [XXXXXX-XXXXXX]: none, the closing
\* bracket alone after other text, lower-case digits, a missing bracket
BadHeaders ==
    { <<>>,
      <<"X", "]">>,
      <<"[", "a", "a", "b", "b", "c", "c", "-", "d", "d", "e", "e", "f", "f", "]">>,
      <<"A", "A", "B", "B", "C", "C", "-", "D", "D", "E", "E", "F", "F", "]">> }

GoodHeaders == {HeaderA, HeaderB}

\* A root inverter record: port, type 6, then the per-leg fields (21 fields)
RootInverterFields(r) ==
    << r.port, T(6), T(r.l1), T(0), T(r.buy1), T(r.sell1), T(r.vin), T(0),
       T(r.vout), T(r.l2), T(0), T(r.buy2), T(r.sell2), T(r.vin), T(0),
       T(r.vout), T(r.mode), T(0), T(r.acmode), T(0), T(r.misc) >>

\* A root charge-controller record: port, type 3, then its fields (13 fields)
RootChargeControllerFields(r) ==
    << r.port, T(3), T(0), T(r.amps), T(r.pvc), T(r.pvv), T(0), T(r.tenths),
       T(0), T(0), T(r.mode), T(r.batt), T(0) >>

Port0 == <<"0", "0">>

InvA == [port |-> Port0, l1 |-> 1, l2 |-> 2, buy1 |-> 5, sell1 |-> 0,
         buy2 |-> 0, sell2 |-> 3, vin |-> 60, vout |-> 61, mode |-> 2,
         acmode |-> 2, misc |-> 64]

InvB == [port |-> Port0, l1 |-> 3, l2 |-> 4, buy1 |-> 0, sell1 |-> 2,
         buy2 |-> 0, sell2 |-> 1, vin |-> 62, vout |-> 63, mode |-> 99,
         acmode |-> 7, misc |-> 0]

CcA == [port |-> Port0, amps |-> 7, pvc |-> 4, pvv |-> 50, tenths |-> 5,
        mode |-> 2, batt |-> 251]

CcB == [port |-> Port0, amps |-> 8, pvc |-> 6, pvv |-> 51, tenths |-> 0,
        mode |-> 9, batt |-> 260]

\* The same raw fields with bit 7 of the misc byte set
With240(r) == [r EXCEPT !.misc = r.misc + 128]

RootInvA == RootInverterFields(InvA)

RootInvA240 == RootInverterFields(With240(InvA))

\* truncated to 20 fields: values[20] is missing
RootInvShort == SubSeq(RootInverterFields(InvB), 1, 20)

\* a non-numeric l1 input voltage (field 6)
RootInvBad == [RootInverterFields(InvB) EXCEPT ![7] = <<"x">>]

RootInvB == RootInverterFields(InvB)

RootCcA == RootChargeControllerFields(CcA)

RootCcB == RootChargeControllerFields(CcB)

\* truncated to 11 fields: values[11] is missing
RootCcShort == SubSeq(RootChargeControllerFields(CcB), 1, 11)

\* a record of type 9, which _process_device does not know
RootUnknown == <<Port0, T(9), T(1), T(2)>>

RootGoodRecords == {RootInvA, RootInvA240, RootInvB, RootCcA, RootCcB}

RootBadRecords == {RootInvShort, RootInvBad, RootCcShort}

RootRecords == RootGoodRecords \cup RootBadRecords

RootRecordLists ==
    {<<>>} \cup {<<r>> : r \in RootRecords}
           \cup {<<r, q>> : r \in RootRecords, q \in RootRecords}
           \cup {<<RootInvA, RootCcA, RootInvA240>>, <<RootCcA, RootInvA, RootCcB>>}
           \cup {<<RootUnknown>>, <<RootUnknown, RootInvA>>,
                 <<RootInvA, RootUnknown, RootInvB>>,
                 <<RootCcA, RootUnknown, RootCcB>>}

RootDatagrams ==
    {Datagram(<<>>, HeaderA, recs, <<>>) : recs \in RootRecordLists}
    \cup {Datagram(<<>>, h, recs, <<>>) :
            h \in {<<>>, <<"X", "]">>}, recs \in {<<RootInvA>>, <<RootInvA, RootCcB>>}}
    \cup {Datagram(<<>>, HeaderA, <<RootCcB>>, <<"\n">>)}
    \cup {Datagram(<<>>, HeaderB, recs, <<>>) : recs \in {<<RootInvB>>, <<RootCcB>>}}

\* A custom_components inverter record: type (1 status, 2 power), device
\* number, then fields 2..14; the power fields are k, k+1, ...
CCInverterFields(type, no, k, mode, acmode) ==
    << T(type), T(no), T(0), T(k), T(k + 1), T(k + 2), T(k + 3), T(k + 4),
       T(k + 5), T(k + 6), T(k + 7), T(mode), T(acmode), T(0), T(0) >>

\* A custom_components charge-controller record: type (4 status, 5 power),
\* device number, then fields 2..7
CCChargeControllerFields(type, no, k, mode) ==
    << T(type), T(no), T(0), T(k), T(k + 1), T(k + 2), T(k + 3), T(mode) >>

CCInvStatus1 == CCInverterFields(1, 1, 20, 3, 2)

CCInvPower1 == CCInverterFields(2, 1, 30, 0, 0)

CCInvPower2 == CCInverterFields(2, 2, 40, 0, 0)

CCCcStatus1 == CCChargeControllerFields(4, 1, 50, 2)

CCCcPower1 == CCChargeControllerFields(5, 1, 60, 0)

\* a record of type 3, which _process_data does not know
CCUnknown == CCInverterFields(3, 1, 70, 0, 0)

\* an inverter power record cut to 14 fields
CCInvShort == SubSeq(CCInverterFields(2, 1, 80, 0, 0), 1, 14)

\* an inverter status record cut to 14 fields
CCInvStatusShort == SubSeq(CCInverterFields(1, 1, 80, 5, 1), 1, 14)

\* an inverter power record of 16 fields whose field 2 is empty
CCInvPowerGap ==
    << T(2), T(1), <<>>, T(70), T(71), T(72), T(73), T(74), T(75), T(76), T(77),
       T(0), T(0), T(0), T(0), T(0) >>

\* an inverter power record whose field 6 is not a number
CCInvBadPower == [CCInverterFields(2, 1, 90, 0, 0) EXCEPT ![7] = <<"x">>]

\* a charge-controller power record cut to 7 fields
CCCcShort == SubSeq(CCChargeControllerFields(5, 1, 85, 0), 1, 7)

\* a charge-controller power record whose field 5 is not a number
CCCcBadPower == [CCChargeControllerFields(5, 1, 95, 0) EXCEPT ![6] = <<"x">>]

CCRecords == {CCInvStatus1, CCInvPower1, CCInvPower2, CCCcStatus1, CCCcPower1}

CCRecordLists ==
    {<<>>} \cup {<<r>> : r \in CCRecords}
           \cup {<<r, q>> : r \in CCRecords, q \in CCRecords}
           \cup {<<CCUnknown>>, <<CCUnknown, CCInvPower1>>,
                 <<CCInvPower1, CCUnknown, CCCcPower1>>}
           \cup {<<CCInvShort>>, <<CCInvStatusShort>>, <<CCInvBadPower>>,
                 <<CCCcShort>>, <<CCCcBadPower>>,
                 <<CCInvBadPower, CCInvPower2>>, <<CCInvStatus1, CCInvBadPower>>,
                 <<CCInvPowerGap>>}

CCDatagrams ==
    {Datagram(<<>>, HeaderA, recs, <<>>) : recs \in CCRecordLists}
    \cup {Datagram(<<>>, HeaderB, recs, <<>>) :
            recs \in {<<CCInvPower1>>, <<CCCcPower1, CCInvStatus1>>}}
    \cup {Datagram(<<>>, h, recs, <<>>) :
            h \in BadHeaders, recs \in {<<CCInvPower1>>, <<CCCcPower1, CCInvPower2>>}}
    \cup {Datagram(<<" ">>, HeaderA, <<CCInvPower2>>, <<"\n">>),
          Datagram(<<InvalidByte>>, HeaderA, <<CCInvPower1>>, <<>>),
          Datagram(<<"X">>, HeaderA, <<CCInvPower1>>, <<>>)}

NoDatagram == Datagram(<<>>, <<>>, <<>>, <<>>)

-----------------------------------------------------------------------------
(* The state machine *)

\* The number of datagrams handled in one behaviour
MaxDatagrams == 2

\* The number of _listen tasks start_listening may create
MaxStarts == 2

\* The number of receive errors
MaxErrors == 2

Tasks == 1..MaxStarts

\* self._socket = None
NoSocket == 0

Registry ==
    [inv |-> inverters, cc |-> charge_controllers, dd |-> device_data,
     discovered |-> discovered_devices, info |-> discovery_info,
     callback |-> add_entities_callback, tasks |-> setup_tasks,
     counts |-> device_counts]

RootStep == last.op = "root_process_data"

RootState == [inv |-> inverters, cc |-> charge_controllers, counts |-> device_counts]

CCState ==
    [dd |-> device_data, discovered |-> discovered_devices, info |-> discovery_info,
     callback |-> add_entities_callback, tasks |-> setup_tasks]

\* None, where self.device_data.get(key) finds no list object
NoObject == 0

\* No _process_inverter or _process_charge_controller call is under way
WriterIdle ==
    [pc |-> "idle", kind |-> "none", device_no |-> 0, values |-> <<>>,
     key |-> <<>>, ref |-> NoObject, todo |-> <<>>, pre |-> EmptyDict]

\* No native_value call is under way
ReaderIdle ==
    [pc |-> "idle", key |-> <<>>, index |-> 0, ref |-> NoObject, seen |-> <<>>,
     during |-> WriterIdle, result |-> [none |-> TRUE, v |-> IntVal(0)]]

\* OutbackMate3.__init__ of either variant
Init ==
    /\ variant \in {"root", "cc"}
    /\ inverters = EmptyDict
    /\ charge_controllers = EmptyDict
    /\ device_counts = EmptyDict
    /\ device_data = EmptyDict
    /\ discovered_devices = {}
    /\ discovery_info = NoDiscoveryInfo
    /\ add_entities_callback = FALSE
    /\ setup_tasks = <<>>
    /\ setup_pc = "created"
    /\ ndatagrams = 0
    /\ last = [op |-> "init", p |-> NoDatagram, pre |-> Registry, repeat |-> FALSE]
    /\ running = FALSE
    /\ self_socket = NoSocket
    /\ sock = [i \in Tasks |-> "none"]
    /\ pc = [i \in Tasks |-> "none"]
    /\ waiting_on = [i \in Tasks |-> NoSocket]
    /\ inflight = [i \in Tasks |-> <<>>]
    /\ nerrors = 0
    /\ erred = [i \in Tasks |-> FALSE]
    /\ start_result = [i \in Tasks |-> "none"]
    /\ stopped = FALSE
    /\ heap = <<>>
    /\ refs = EmptyDict
    /\ writer = WriterIdle
    /\ reader = ReaderIdle

\* root: _listen receives a datagram and calls _process_data(data)
RootReceive ==
    /\ variant = "root"
    /\ ndatagrams < MaxDatagrams
    /\ \E p \in RootDatagrams :
         \E r \in {Root_process_data(RootState, Wire(p))} :
             /\ inverters' = r.inv
             /\ charge_controllers' = r.cc
             /\ device_counts' = r.counts
             /\ last' = [op |-> "root_process_data", p |-> p, pre |-> Registry,
                         repeat |-> (RootStep /\ last.p = p)]
    /\ ndatagrams' = ndatagrams + 1
    /\ UNCHANGED <<variant, device_data, discovered_devices, discovery_info,
                   add_entities_callback, setup_tasks, setup_pc>>
    /\ UNCHANGED <<lvars, tvars>>

\* The registry of the custom_components variant after one of its handlers
CCStore(r, op, p) ==
    /\ device_data' = r.dd
    /\ discovered_devices' = r.discovered
    /\ discovery_info' = r.info
    /\ add_entities_callback' = r.callback
    /\ setup_tasks' = r.tasks
    /\ last' = [op |-> op, p |-> p, pre |-> Registry,
                repeat |-> (last.op = op /\ last.p = p)]
    /\ ndatagrams' = ndatagrams + 1

CCApply(r, op, p) ==
    /\ CCStore(r, op, p)
    /\ UNCHANGED <<variant, inverters, charge_controllers, device_counts, setup_pc>>
    /\ UNCHANGED <<lvars, tvars>>

\* cc: _listen receives a datagram and runs _process_data(data, entry_id)
CCReceive ==
    /\ variant = "cc"
    /\ ndatagrams < MaxDatagrams
    /\ \E p \in CCDatagrams :
         CCApply(CC_process_data(CCState, Wire(p)), "cc_process_data", p)

\* cc: the server started by async_setup_entry calls handle_connection
CCConnection ==
    /\ variant = "cc"
    /\ ndatagrams < MaxDatagrams
    /\ \E p \in CCDatagrams :
         CCApply(CC_handle_connection(CCState, Wire(p)), "cc_handle_connection", p)

\* cc: async_setup_entry forwards the entry to the sensor platform, whose
\* async_setup_entry registers the add-entities callback when no discovery
\* info is stored yet (sensor.py lines 38-46)
CCForwardSensorSetup ==
    /\ variant = "cc"
    /\ setup_pc = "created"
    /\ setup_pc' = "forwarded"
    /\ add_entities_callback' = (add_entities_callback \/ ~discovery_info.present)
    /\ last' = [op |-> "sensor_setup", p |-> NoDatagram, pre |-> Registry,
                repeat |-> FALSE]
    /\ UNCHANGED <<variant, inverters, charge_controllers, device_counts,
                   device_data, discovered_devices, discovery_info, setup_tasks,
                   ndatagrams>>
    /\ UNCHANGED <<lvars, tvars>>

\* cc: async_setup_entry stores the initial discovery info (lines 64-70)
CCStoreDiscoveryInfo ==
    /\ variant = "cc"
    /\ setup_pc = "forwarded"
    /\ setup_pc' = "done"
    /\ discovery_info' = [present |-> TRUE, mac_address |-> DefaultMac]
    /\ last' = [op |-> "store_discovery", p |-> NoDatagram, pre |-> Registry,
                repeat |-> FALSE]
    /\ UNCHANGED <<variant, inverters, charge_controllers, device_counts,
                   device_data, discovered_devices, add_entities_callback,
                   setup_tasks, ndatagrams>>
    /\ UNCHANGED <<lvars, tvars>>

Next ==
    \/ RootReceive
    \/ CCReceive
    \/ CCConnection
    \/ CCForwardSensorSetup
    \/ CCStoreDiscoveryInfo

Spec == Init /\ [][Next]_vars

-----------------------------------------------------------------------------
(* The listener: start_listening, stop_listening and the _listen tasks.     *)
(* All of it runs on one event loop, so a task runs without interruption    *)
(* from one await to the next; in the custom_components variant recvfrom    *)
(* and _process_data run as executor jobs that the task awaits.             *)

\* The datagrams that arrive while the listener is observed
ListenerRootDatagrams ==
    {Datagram(<<>>, HeaderA, recs, <<>>) :
        recs \in {<<RootInvA>>, <<RootInvBad>>, <<RootCcA, RootInvB>>}}

ListenerCCDatagrams ==
    {Datagram(<<>>, HeaderA, <<CCInvPower1>>, <<>>),
     Datagram(<<>>, HeaderA, <<CCCcPower1, CCInvStatus1>>, <<>>),
     Datagram(<<>>, <<"X", "]">>, <<CCInvPower1>>, <<>>)}

\* The await at which a task waits for a datagram: sock_recv in the root
\* variant, the recvfrom executor job in the custom_components variant
Receiving == IF variant = "root" THEN "recv" ELSE "recvfrom"

\* while self._running: the await the task reaches next, or the end of _listen
LoopCheck == IF running THEN Receiving ELSE "exited"

\* A task that submits _process_data and goes on to receive without awaiting
\* it: the variant against which C20 is tested
CCSubmitWithoutAwait == "recvfrom"

\* await self.hass.async_add_executor_job(self._process_data, ...): the task
\* is suspended until the job is done
CCAwaitProcessData == "processing"

\* A receive error that leaves _listen: the variant against which C17 is
\* tested
ErrorLeavesLoop == "raised"

\* except Exception: log, await asyncio.sleep(1)
ErrorHandled == "sleep"

\* self._running = True; asyncio.create_task(self._listen()), for the next
\* task i; the call returns normally
StartCall(i, result) ==
    /\ pc[i] = "none" /\ \A j \in 1..(i - 1) : pc[j] # "none"
    /\ running' = TRUE
    /\ pc' = [pc EXCEPT ![i] = "scheduled"]
    /\ start_result' = [start_result EXCEPT ![i] = result]
    /\ UNCHANGED <<self_socket, sock, waiting_on, inflight, nerrors, erred, stopped>>
    /\ UNCHANGED <<rvars, tvars>>

\* start_listening(): unconditional in the root variant, guarded by
\* "if not self._running" in the custom_components variant
StartListening ==
    /\ ~stopped
    /\ IF variant = "cc" /\ running THEN UNCHANGED vars
       ELSE \E i \in Tasks : StartCall(i, "returned")

\* root: async_setup_entry calls mate3.start_listening() and returns True
RootAsyncSetupEntry ==
    /\ variant = "root"
    /\ ~stopped
    /\ StartCall(1, "returned_true")

\* stop_listening(): self._running = False; if self._socket: close it.  A
\* sock_recv pending on the closed socket is left with a closed descriptor
StopListening ==
    /\ ~stopped
    /\ stopped' = TRUE
    /\ running' = FALSE
    /\ sock' = IF self_socket = NoSocket THEN sock
               ELSE [sock EXCEPT ![self_socket] = "closed"]
    /\ pc' = [i \in Tasks |->
                IF pc[i] = "recv" /\ self_socket # NoSocket /\ waiting_on[i] = self_socket
                THEN "recv_closed" ELSE pc[i]]
    /\ UNCHANGED <<self_socket, waiting_on, inflight, nerrors, erred, start_result>>
    /\ UNCHANGED <<rvars, tvars>>

\* _listen up to its first await: the socket is created and stored in
\* self._socket, bind raises when the port is taken (always when another
\* socket of this instance is bound to it), then the loop is entered
ListenStartup(i) ==
    /\ pc[i] = "scheduled"
    /\ self_socket' = i
    /\ \E bind_ok \in BOOLEAN :
         /\ (\E j \in Tasks \ {i} : sock[j] = "bound") => ~bind_ok
         /\ IF bind_ok
            THEN /\ sock' = [sock EXCEPT ![i] = "bound"]
                 /\ pc' = [pc EXCEPT ![i] = LoopCheck]
                 /\ waiting_on' = [waiting_on EXCEPT ![i] = i]
            ELSE /\ sock' = [sock EXCEPT ![i] = "open"]
                 /\ pc' = [pc EXCEPT ![i] = "raised"]
                 /\ UNCHANGED waiting_on
    /\ UNCHANGED <<running, inflight, nerrors, erred, start_result, stopped>>
    /\ UNCHANGED <<rvars, tvars>>

\* root: sock_recv returns a datagram, _process_data(data) runs inline, and
\* the loop goes on to the next sock_recv(self._socket)
ListenRootReceive(i) ==
    /\ variant = "root"
    /\ pc[i] = "recv"
    /\ waiting_on[i] # NoSocket /\ sock[waiting_on[i]] = "bound"
    /\ ndatagrams < MaxDatagrams
    /\ \E p \in ListenerRootDatagrams :
         \E r \in {Root_process_data(RootState, Wire(p))} :
             /\ inverters' = r.inv
             /\ charge_controllers' = r.cc
             /\ device_counts' = r.counts
             /\ last' = [op |-> "root_process_data", p |-> p, pre |-> Registry,
                         repeat |-> (RootStep /\ last.p = p)]
    /\ ndatagrams' = ndatagrams + 1
    /\ pc' = [pc EXCEPT ![i] = LoopCheck]
    /\ waiting_on' = [waiting_on EXCEPT ![i] = self_socket]
    /\ UNCHANGED <<variant, device_data, discovered_devices, discovery_info,
                   add_entities_callback, setup_tasks, setup_pc>>
    /\ UNCHANGED <<running, self_socket, sock, inflight, nerrors, erred,
                   start_result, stopped>>
    /\ UNCHANGED tvars

\* The except clause of the loop after a receive error
ReceiveError(i) ==
    /\ nerrors < MaxErrors
    /\ nerrors' = nerrors + 1
    /\ pc' = [pc EXCEPT ![i] = ErrorHandled]
    /\ erred' = [erred EXCEPT ![i] = TRUE]
    /\ last' = [op |-> "receive_error", p |-> NoDatagram, pre |-> Registry,
                repeat |-> FALSE]
    /\ UNCHANGED <<variant, inverters, charge_controllers, device_counts,
                   device_data, discovered_devices, discovery_info,
                   add_entities_callback, setup_tasks, setup_pc, ndatagrams>>
    /\ UNCHANGED <<running, self_socket, sock, waiting_on, inflight,
                   start_result, stopped>>
    /\ UNCHANGED tvars

\* root: sock_recv raises
ListenRootRecvError(i) ==
    /\ variant = "root"
    /\ pc[i] = "recv"
    /\ ReceiveError(i)

\* root: a sock_recv whose socket was closed while it was pending either
\* raises, which the loop handles, or never completes
ListenRootClosedRecv(i) ==
    /\ pc[i] = "recv_closed"
    /\ \E outcome \in {"sleep", "hung"} : pc' = [pc EXCEPT ![i] = outcome]
    /\ UNCHANGED <<running, self_socket, sock, waiting_on, inflight, nerrors,
                   erred, start_result, stopped>>
    /\ UNCHANGED <<rvars, tvars>>

\* asyncio.sleep is over: back to the loop condition
ListenWake(i) ==
    /\ pc[i] = "sleep"
    /\ pc' = [pc EXCEPT ![i] = LoopCheck]
    /\ waiting_on' = [waiting_on EXCEPT ![i] = self_socket]
    /\ erred' = [erred EXCEPT ![i] = FALSE]
    /\ UNCHANGED <<running, self_socket, sock, inflight, nerrors, start_result,
                   stopped>>
    /\ UNCHANGED <<rvars, tvars>>

\* cc: recvfrom returns a datagram and _process_data is handed to the
\* executor
ListenCCData(i) ==
    /\ variant = "cc"
    /\ pc[i] = "recvfrom"
    /\ sock[waiting_on[i]] = "bound"
    /\ ndatagrams + Len(inflight[i]) < MaxDatagrams
    /\ \E p \in ListenerCCDatagrams : inflight' = [inflight EXCEPT ![i] = Append(@, p)]
    /\ pc' = [pc EXCEPT ![i] = CCAwaitProcessData]
    /\ UNCHANGED <<running, self_socket, sock, waiting_on, nerrors, erred,
                   start_result, stopped>>
    /\ UNCHANGED <<rvars, tvars>>

\* cc: recvfrom on the non-blocking socket finds no datagram:
\* except BlockingIOError: await asyncio.sleep(0.1)
ListenCCNoData(i) ==
    /\ variant = "cc"
    /\ pc[i] = "recvfrom"
    /\ sock[waiting_on[i]] = "bound"
    /\ pc' = [pc EXCEPT ![i] = "sleep"]
    /\ UNCHANGED <<running, self_socket, sock, waiting_on, inflight, nerrors,
                   erred, start_result, stopped>>
    /\ UNCHANGED <<rvars, tvars>>

\* cc: recvfrom raises another error
ListenCCRecvError(i) ==
    /\ variant = "cc"
    /\ pc[i] = "recvfrom"
    /\ sock[waiting_on[i]] = "bound"
    /\ ReceiveError(i)

\* cc: recvfrom on the socket stop_listening has closed raises OSError
ListenCCClosedRecv(i) ==
    /\ variant = "cc"
    /\ pc[i] = "recvfrom"
    /\ sock[waiting_on[i]] = "closed"
    /\ pc' = [pc EXCEPT ![i] = "sleep"]
    /\ UNCHANGED <<running, self_socket, sock, waiting_on, inflight, nerrors,
                   erred, start_result, stopped>>
    /\ UNCHANGED <<rvars, tvars>>

\* cc: the _process_data job of task i is done; the task, if it awaits the
\* job, goes back to the loop condition
ListenCCProcess(i) ==
    /\ variant = "cc"
    /\ inflight[i] # <<>>
    /\ \E r \in {CC_process_data(CCState, Wire(Head(inflight[i])))} :
         CCStore(r, "cc_process_data", Head(inflight[i]))
    /\ inflight' = [inflight EXCEPT ![i] = Tail(@)]
    /\ pc' = [pc EXCEPT ![i] = IF @ = "processing" THEN LoopCheck ELSE @]
    /\ waiting_on' = [waiting_on EXCEPT ![i] = IF pc[i] = "processing"
                                               THEN self_socket ELSE @]
    /\ UNCHANGED <<variant, inverters, charge_controllers, device_counts, setup_pc>>
    /\ UNCHANGED <<running, self_socket, sock, nerrors, erred, start_result, stopped>>
    /\ UNCHANGED tvars

ListenerNext ==
    \/ StartListening
    \/ RootAsyncSetupEntry
    \/ StopListening
    \/ \E i \in Tasks : ListenStartup(i)
    \/ \E i \in Tasks : ListenRootReceive(i)
    \/ \E i \in Tasks : ListenRootRecvError(i)
    \/ \E i \in Tasks : ListenRootClosedRecv(i)
    \/ \E i \in Tasks : ListenWake(i)
    \/ \E i \in Tasks : ListenCCData(i)
    \/ \E i \in Tasks : ListenCCNoData(i)
    \/ \E i \in Tasks : ListenCCRecvError(i)
    \/ \E i \in Tasks : ListenCCClosedRecv(i)
    \/ \E i \in Tasks : ListenCCProcess(i)

\* The step of task i that waits for nothing outside the program: its
\* startup, the end of a sleep, the outcome of a receive on a closed socket
TaskStep(i) ==
    \/ ListenStartup(i)
    \/ ListenWake(i)
    \/ ListenRootClosedRecv(i)
    \/ ListenCCClosedRecv(i)

\* The first _process_data job of task i leaves the executor: the steps of
\* ListenCCProcess(i), told by what they do to inflight
JobDone(i) ==
    /\ inflight[i] # <<>>
    /\ inflight' = [inflight EXCEPT ![i] = Tail(@)]

\* The event loop runs every task that is ready, and the executor finishes
\* every job: a step of a task that waits for nothing outside the program
\* is taken eventually.  Nothing is assumed about datagrams, errors, or the
\* calls of start_listening and stop_listening.
ListenerFairness ==
    \A i \in Tasks : WF_vars(TaskStep(i)) /\ WF_inflight(JobDone(i))

ListenerSpec == Init /\ [][ListenerNext]_vars /\ ListenerFairness

\* start_listening() called again after stop_listening(): self._running is
\* False by then, so the guard of the custom_components variant lets it pass
StartAfterStop ==
    /\ stopped
    /\ ~running
    /\ \E i \in Tasks : StartCall(i, "returned")

RestartNext ==
    \/ ListenerNext
    \/ StartAfterStop

\* The listener with calls of start_listening after stop_listening
RestartSpec == Init /\ [][RestartNext]_vars

-----------------------------------------------------------------------------
(* Properties.  last.p describes the datagram of the last step, last.pre is *)
(* the registry before that step, and last.repeat tells that the step       *)
(* before it was the same operation on the same datagram.                   *)

CCStep == last.op \in {"cc_process_data", "cc_handle_connection"}

\* The type token of a record (its second field)
RecordType(rec) == IF Len(rec) >= 2 THEN rec[2] ELSE <<>>

IsInverterRecord(rec) == RecordType(rec) = <<"6">>

IsChargeControllerRecord(rec) == RecordType(rec) = <<"3">>

\* The 0-based fields an inverter record is read at, and a charge-controller
\* record
InverterFieldsRead == {2, 3, 4, 5, 6, 8, 9, 10, 11, 12, 13, 15, 16, 18, 20}

ChargeControllerFieldsRead == {3, 4, 5, 7, 10, 11}

\* Every field read is there and numeric
Decodes(rec, fields) ==
    \A i \in fields : i < Len(rec) /\ ParseFloat(rec[i + 1]).ok

WellFormedRecord(rec) ==
    /\ rec # <<>> /\ StartsWith(rec[1], "0")
    /\ \/ IsInverterRecord(rec) /\ Len(rec) >= 21 /\ Decodes(rec, InverterFieldsRead)
       \/ IsChargeControllerRecord(rec) /\ Len(rec) >= 12
            /\ Decodes(rec, ChargeControllerFieldsRead)

FailingRecord(rec) ==
    \/ IsInverterRecord(rec) /\ ~Decodes(rec, InverterFieldsRead)
    \/ IsChargeControllerRecord(rec) /\ ~Decodes(rec, ChargeControllerFieldsRead)

\* The position of record i among the records of its type: 1, 2, 3, ...
SlotOf(recs, i) ==
    Cardinality({j \in 1..i : RecordType(recs[j]) = RecordType(recs[i])})

\* The reading a well-formed record decodes to
DecodedInverter(rec) == Root_process_inverter(EmptyDict, 1, rec).m[1]

DecodedChargeController(rec) == Root_process_charge_controller(EmptyDict, 1, rec).m[1]

\* A text of the form [XXXXXX-XXXXXX], X an upper-case hexadecimal digit
HeaderForm(h) ==
    /\ Len(h) = 15
    /\ h[1] = "[" /\ h[8] = "-" /\ h[15] = "]"
    /\ \A i \in (2..14) \ {8} : h[i] \in HexUpper

\* The payload begins with a header
BeginsWithHeader(p) ==
    Len(p.lead \o p.hdr) >= 15 /\ HeaderForm(SubSeq(p.lead \o p.hdr, 1, 15))

\* The payload is text that begins with a header once the whitespace around
\* it is stripped
BeginsWithHeaderAfterStrip(p) ==
    /\ InvalidByte \notin {p.lead[i] : i \in 1..Len(p.lead)}
    /\ Len(Strip(p.lead \o p.hdr)) >= 15
    /\ HeaderForm(SubSeq(Strip(p.lead \o p.hdr), 1, 15))

CCUnchanged ==
    /\ device_data = last.pre.dd
    /\ discovered_devices = last.pre.discovered
    /\ discovery_info = last.pre.info

\* C1: in the root variant a charge-controller record with fewer than 12
\* fields leaves the reading stored for its slot as it was before the
\* datagram, field for field.
C1_TruncatedRecordLeavesSlot ==
    RootStep =>
      \A i \in 1..Len(last.p.recs) :
        ( /\ IsChargeControllerRecord(last.p.recs[i])
          /\ Len(last.p.recs[i]) < 12
          /\ SlotOf(last.p.recs, i) \in DOMAIN last.pre.cc )
        => charge_controllers[SlotOf(last.p.recs, i)]
             = last.pre.cc[SlotOf(last.p.recs, i)]

\* C2: in the root variant inverter records that fail to decode cause no
\* partial update: after a datagram whose inverter records all fail, the
\* inverters map is the map before it, no field changed and no slot created.
C2_FailedInverterRecordNoUpdate ==
    ( /\ RootStep
      /\ \A i \in 1..Len(last.p.recs) :
           IsInverterRecord(last.p.recs[i]) => FailingRecord(last.p.recs[i]) )
    => inverters = last.pre.inv

\* The reading of a well-formed record is held by some slot of its map
Stored(rec) ==
    IF IsInverterRecord(rec)
    THEN \E k \in DOMAIN inverters : inverters[k] = DecodedInverter(rec)
    ELSE \E k \in DOMAIN charge_controllers :
            charge_controllers[k] = DecodedChargeController(rec)

\* C3: in the root variant, when a record of a datagram fails to decode,
\* every well-formed record after it in the same datagram is still decoded
\* and stored.
C3_LaterRecordsStillStored ==
    (RootStep /\ BeginsWithHeader(last.p)) =>
      \A i, j \in 1..Len(last.p.recs) :
        (i < j /\ FailingRecord(last.p.recs[i]) /\ WellFormedRecord(last.p.recs[j]))
        => Stored(last.p.recs[j])

\* C4 as stated: in the custom_components variant a payload that does not
\* begin with a header [XXXXXX-XXXXXX] changes neither device_data nor
\* discovered_devices nor the discovery info, in _process_data and in
\* handle_connection.
C4_NoHeaderNoChange ==
    (CCStep /\ ~BeginsWithHeader(last.p)) => CCUnchanged

\* C4 amended: in the custom_components variant a payload that, decoded and
\* stripped of surrounding whitespace, does not begin with a header
\* [XXXXXX-XXXXXX] changes neither device_data nor discovered_devices nor
\* the discovery info, in _process_data and in handle_connection.
C4_NoHeaderAfterStripNoChange ==
    (CCStep /\ ~BeginsWithHeaderAfterStrip(last.p)) => CCUnchanged

\* handle_connection has rejected a payload without header while readings
\* and an identity were stored
C4_Witness ==
    /\ last.op = "cc_handle_connection"
    /\ last.p.hdr \in BadHeaders
    /\ last.p.recs # <<>>
    /\ device_data # EmptyDict
    /\ discovered_devices # {}

\* C5: in the root variant a datagram that does not begin with a header
\* [XXXXXX-XXXXXX] leaves the inverters and charge_controllers maps
\* unchanged, also when it holds well-formed records.
C5_HeaderlessDatagramDropped ==
    (RootStep /\ ~BeginsWithHeader(last.p))
    => (inverters = last.pre.inv /\ charge_controllers = last.pre.cc)

\* C6: for a datagram with header [AABBCC-DDEEFF], _process_data of the
\* custom_components variant takes "AABBCCDDEEFF" as the controller
\* identity, and every device key it writes starts with that identity.
C6_IdentityIsHeaderWithoutHyphen ==
    (last.op = "cc_process_data" /\ last.p.lead = <<>> /\ last.p.hdr = HeaderA) =>
      /\ discovered_devices = last.pre.discovered \cup {MacA}
      /\ MacA \notin last.pre.discovered
           => discovery_info = [present |-> TRUE, mac_address |-> MacA]
      /\ \A key \in DOMAIN device_data :
           (key \notin DOMAIN last.pre.dd \/ device_data[key] # last.pre.dd[key])
           => (Len(key) >= 12 /\ SubSeq(key, 1, 12) = MacA)

\* _process_data has written a new device key for header [AABBCC-DDEEFF]
C6_Witness ==
    /\ last.op = "cc_process_data"
    /\ last.p.lead = <<>> /\ last.p.hdr = HeaderA
    /\ \E key \in DOMAIN device_data : key \notin DOMAIN last.pre.dd

WellFormedDatagram(p) ==
    BeginsWithHeader(p) /\ \A i \in 1..Len(p.recs) : WellFormedRecord(p.recs[i])

\* The device type code of a well-formed record
TypeCode(rec) == IF IsInverterRecord(rec) THEN 6 ELSE 3

\* For every type in the datagram, the number of its records
CountsOf(recs) ==
    [t \in {TypeCode(recs[j]) : j \in 1..Len(recs)} |->
        Cardinality({j \in 1..Len(recs) : TypeCode(recs[j]) = t})]

\* C7: in the root variant slot numbers are positional per datagram: the
\* k-th record of a type is stored under slot k whatever records of the
\* other type lie between and whatever earlier datagrams held, and the
\* per-type counters after the datagram count the records of this datagram
\* only.
C7_SlotsArePositional ==
    (RootStep /\ WellFormedDatagram(last.p)) =>
      /\ \A i \in 1..Len(last.p.recs) :
           IF IsInverterRecord(last.p.recs[i])
           THEN /\ SlotOf(last.p.recs, i) \in DOMAIN inverters
                /\ inverters[SlotOf(last.p.recs, i)] = DecodedInverter(last.p.recs[i])
           ELSE /\ SlotOf(last.p.recs, i) \in DOMAIN charge_controllers
                /\ charge_controllers[SlotOf(last.p.recs, i)]
                     = DecodedChargeController(last.p.recs[i])
      /\ device_counts = CountsOf(last.p.recs)

\* Two consecutive datagrams of one inverter record each: the second has
\* overwritten slot 1, and no other slot exists
C7_Witness ==
    /\ RootStep
    /\ last.p.recs = <<RootInvB>> /\ BeginsWithHeader(last.p)
    /\ DOMAIN last.pre.inv = {1}
    /\ last.pre.inv[1] = DecodedInverter(RootInvA)
    /\ DOMAIN inverters = {1}
    /\ inverters[1] = DecodedInverter(RootInvB)

\* The number of times x occurs in seq
Occurrences(seq, x) == Cardinality({i \in 1..Len(seq) : seq[i] = x})

\* C8: discovery is signalled exactly once per device key: in the
\* custom_components variant the entity-setup task has been scheduled once,
\* no more and no less, for every controller identity seen so far; in the
\* root variant a slot entry is new only if a record of the last datagram
\* has that slot.
C8_DiscoverySignalledOnce ==
    /\ \A id \in discovered_devices : Occurrences(setup_tasks, id) = 1
    /\ \A i \in 1..Len(setup_tasks) : setup_tasks[i] \in discovered_devices
    /\ RootStep =>
         \A k \in DOMAIN inverters \ DOMAIN last.pre.inv :
            \E i \in 1..Len(last.p.recs) :
               IsInverterRecord(last.p.recs[i]) /\ SlotOf(last.p.recs, i) = k

\* C9: a device key, once created, is never deleted: in every step the keys
\* of inverters, of charge_controllers and of device_data only grow.
C9_KeysNeverDeleted ==
    [][ /\ DOMAIN inverters \subseteq DOMAIN inverters'
        /\ DOMAIN charge_controllers \subseteq DOMAIN charge_controllers'
        /\ DOMAIN device_data \subseteq DOMAIN device_data' ]_vars

\* A datagram without inverter records has arrived after two inverters were
\* stored, and both are still there
C9_Witness ==
    /\ RootStep
    /\ DOMAIN last.pre.inv = {1, 2}
    /\ \A i \in 1..Len(last.p.recs) : ~IsInverterRecord(last.p.recs[i])
    /\ last.p.recs # <<>>
    /\ DOMAIN inverters = {1, 2}

VoltageFields ==
    {"l1_ac_input_voltage", "l1_ac_output_voltage",
     "l2_ac_input_voltage", "l2_ac_output_voltage"}

\* The misc byte of an inverter record
MiscOf(rec) == ParseInt(rec[21]).v

\* The same record with bit 7 of the misc byte clear
WithBit7Clear(rec) == [rec EXCEPT ![21] = IntToStr(MiscOf(rec) - 2 ^ 7)]

\* C10: in the root variant's inverter decoder a misc byte with bit 7 set
\* doubles the stored L1 and L2 input and output voltages relative to the
\* same record decoded with bit 7 clear.
C10_Bit7DoublesVoltages ==
    ( /\ RootStep /\ BeginsWithHeader(last.p)
      /\ Len(last.p.recs) = 1
      /\ WellFormedRecord(last.p.recs[1]) /\ IsInverterRecord(last.p.recs[1])
      /\ BitSet(MiscOf(last.p.recs[1]), 7) )
    => \A f \in VoltageFields :
         inverters[1][f] = 2 * DecodedInverter(WithBit7Clear(last.p.recs[1]))[f]

\* The grid current the buy/sell rule gives: the buys when their sum is
\* positive, otherwise minus the sells
SignedGridCurrent(l1_buy, l2_buy, l1_sell, l2_sell) ==
    IF l1_buy + l2_buy > 0 THEN l1_buy + l2_buy ELSE -(l1_sell + l2_sell)

\* C11: the grid current stored for an inverter is signed by the buy/sell
\* rule: after a well-formed inverter record the reading of its slot holds a
\* grid current equal to L1 buy + L2 buy when that sum is positive and to
\* minus (L1 sell + L2 sell) otherwise.
C11_GridCurrentSigned ==
    ( /\ RootStep /\ BeginsWithHeader(last.p)
      /\ Len(last.p.recs) = 1
      /\ WellFormedRecord(last.p.recs[1]) /\ IsInverterRecord(last.p.recs[1]) )
    => /\ "grid_current" \in DOMAIN inverters[1]
       /\ inverters[1]["grid_current"]
            = SignedGridCurrent(FloatAt(last.p.recs[1], 4).v,
                                FloatAt(last.p.recs[1], 4 + 7).v,
                                FloatAt(last.p.recs[1], 5).v,
                                FloatAt(last.p.recs[1], 5 + 7).v)

\* The codes the three lookup tables list
InverterModeCodes == (0..12) \cup {14, 90, 91, 92}

AcModeCodes == 0..2

ChargerModeCodes == 0..4

\* label is the entry of a table for code: the table's label for a listed
\* code, "unknown" for any other
IsLabelOf(label, code, codes, entry) ==
    IF code \in codes THEN label = entry /\ label # "unknown"
    ELSE label = "unknown"

\* C12: the mode lookups of the root variant are total: after a well-formed
\* record the stored inverter_mode, ac_mode and charger_mode are the table's
\* label for a listed code and "unknown" for every other integer code, and
\* the record is stored to its last field.
C12_ModeLookupsTotal ==
    (RootStep /\ WellFormedDatagram(last.p)) =>
      \A i \in 1..Len(last.p.recs) :
        IF IsInverterRecord(last.p.recs[i])
        THEN /\ SlotOf(last.p.recs, i) \in DOMAIN inverters
             /\ {"inverter_mode", "ac_mode"}
                  \subseteq DOMAIN inverters[SlotOf(last.p.recs, i)]
             /\ IsLabelOf(inverters[SlotOf(last.p.recs, i)]["inverter_mode"],
                          IntAt(last.p.recs[i], 16).v, InverterModeCodes,
                          inverter_mode_label(IntAt(last.p.recs[i], 16).v))
             /\ IsLabelOf(inverters[SlotOf(last.p.recs, i)]["ac_mode"],
                          IntAt(last.p.recs[i], 18).v, AcModeCodes,
                          ac_mode_label(IntAt(last.p.recs[i], 18).v))
        ELSE /\ SlotOf(last.p.recs, i) \in DOMAIN charge_controllers
             /\ {"charger_mode", "battery_voltage"}
                  \subseteq DOMAIN charge_controllers[SlotOf(last.p.recs, i)]
             /\ IsLabelOf(charge_controllers[SlotOf(last.p.recs, i)]["charger_mode"],
                          IntAt(last.p.recs[i], 10).v, ChargerModeCodes,
                          charger_mode_label(IntAt(last.p.recs[i], 10).v))

\* An inverter with the unlisted codes 99 and 7 and a charge controller with
\* the unlisted code 9 have been stored by one datagram
C12_Witness ==
    /\ RootStep /\ BeginsWithHeader(last.p)
    /\ last.p.recs = <<RootInvB, RootCcB>>
    /\ inverters[1]["inverter_mode"] = "unknown"
    /\ inverters[1]["ac_mode"] = "unknown"
    /\ charge_controllers[1]["charger_mode"] = "unknown"
    /\ "battery_voltage" \in DOMAIN charge_controllers[1]

\* A record whose type code is an integer that the dispatch does not list:
\* values[1] outside {6, 3} in the root variant, values[0] outside
\* {1, 2, 4, 5} in the custom_components variant
RootUnrecognised(rec) == IntAt(rec, 1).ok /\ IntAt(rec, 1).v \notin {6, 3}

CCUnrecognised(rec) == IntAt(rec, 0).ok /\ IntAt(rec, 0).v \notin {1, 2, 4, 5}

\* The datagram of the last step without its records of unrecognised type
RootWithoutUnrecognised ==
    [last.p EXCEPT !.recs = SelectSeq(last.p.recs, LAMBDA rec : ~RootUnrecognised(rec))]

CCWithoutUnrecognised ==
    [last.p EXCEPT !.recs = SelectSeq(last.p.recs, LAMBDA rec : ~CCUnrecognised(rec))]

\* C13: a record of unrecognised type changes no reading, and the other
\* records of its datagram are processed as if it were absent: the readings
\* (and, in the root variant, the counters of the types 6 and 3) after the
\* datagram are those the datagram without the record gives from the same
\* registry.
C13_UnrecognisedTypeIgnored ==
    /\ (RootStep /\ BeginsWithHeader(last.p)) =>
         \A r \in {Root_process_data([inv |-> last.pre.inv, cc |-> last.pre.cc,
                                      counts |-> EmptyDict],
                                     Wire(RootWithoutUnrecognised))} :
            /\ inverters = r.inv
            /\ charge_controllers = r.cc
            /\ \A t \in {6, 3} : DictGet(device_counts, t, 0) = DictGet(r.counts, t, 0)
    /\ last.op = "cc_process_data" =>
         \A r \in {CC_process_data([dd |-> last.pre.dd,
                                    discovered |-> last.pre.discovered,
                                    info |-> last.pre.info,
                                    callback |-> last.pre.callback,
                                    tasks |-> last.pre.tasks],
                                   Wire(CCWithoutUnrecognised))} :
            /\ device_data = r.dd
            /\ discovered_devices = r.discovered
            /\ discovery_info = r.info

\* A record of type 9 has arrived between two inverter records, which were
\* stored under slots 1 and 2
C13_Witness ==
    /\ RootStep /\ BeginsWithHeader(last.p)
    /\ last.p.recs = <<RootInvA, RootUnknown, RootInvB>>
    /\ last.pre.inv = EmptyDict
    /\ DOMAIN inverters = {1, 2}
    /\ inverters[2] = DecodedInverter(RootInvB)
    /\ DictGet(device_counts, 9, 0) = 1

\* A record of type 3 has arrived between two records of one
\* custom_components datagram, which were stored
C13_WitnessCC ==
    /\ last.op = "cc_process_data"
    /\ last.p.recs = <<CCInvPower1, CCUnknown, CCCcPower1>>
    /\ Cardinality(DOMAIN device_data) = 2

\* C14: ingestion is idempotent for a repeated datagram: when _process_data
\* is given the datagram it was given just before, the registry afterwards
\* is the registry after the first of the two, in its keys, its fields, the
\* derived values and the discovered set, in both variants; and giving the
\* datagram of the last step once more would change nothing.
C14_RepeatedDatagramIdempotent ==
    /\ (last.repeat /\ last.op \in {"root_process_data", "cc_process_data"}) =>
         /\ inverters = last.pre.inv
         /\ charge_controllers = last.pre.cc
         /\ device_counts = last.pre.counts
         /\ device_data = last.pre.dd
         /\ discovered_devices = last.pre.discovered
         /\ discovery_info = last.pre.info
    /\ RootStep =>
         \A r \in {Root_process_data(RootState, Wire(last.p))} :
            /\ inverters = r.inv
            /\ charge_controllers = r.cc
            /\ device_counts = r.counts
    /\ last.op = "cc_process_data" =>
         \A r \in {CC_process_data(CCState, Wire(last.p))} :
            /\ device_data = r.dd
            /\ discovered_devices = r.discovered
            /\ discovery_info = r.info

\* A root datagram with an inverter and a charge controller has been given
\* twice in a row
C14_Witness ==
    /\ last.repeat /\ RootStep
    /\ BeginsWithHeader(last.p)
    /\ last.p.recs = <<RootInvA, RootCcB>>
    /\ DOMAIN inverters = {1} /\ DOMAIN charge_controllers = {1}

\* A custom_components datagram with two readings has been given twice in a
\* row
C14_WitnessCC ==
    /\ last.repeat /\ last.op = "cc_process_data"
    /\ last.p.hdr = HeaderA /\ last.p.lead = <<>>
    /\ last.p.recs = <<CCInvPower1, CCCcPower1>>
    /\ discovered_devices = {MacA}
    /\ Cardinality(DOMAIN device_data) = 2

-----------------------------------------------------------------------------
(* The reads of the custom_components sensors.  self.inverters and          *)
(* self.charge_controllers map a controller identity to a map from device   *)
(* number to a reading; a reading maps field names to numbers.              *)

\* The sum of g over the set S
RECURSIVE SumOver(_, _)
SumOver(g, S) ==
    IF S = {} THEN 0
    ELSE Only({ g[x] + SumOver(g, S \ {x}) : x \in {CHOOSE y \in S : TRUE} })

\* for mac_devices in m.values(): for device_data in mac_devices.values():
\*     if sensor_type in device_data: total += float(device_data[sensor_type])
FieldTotal(m, sensor_type) ==
    SumOver([k \in DOMAIN m |->
               SumOver([j \in DOMAIN m[k] |->
                          IF sensor_type \in DOMAIN m[k][j]
                          THEN m[k][j][sensor_type] ELSE 0],
                       DOMAIN m[k])],
            DOMAIN m)

\* sensor_type in device_data for some reading of m
FieldHeld(m, sensor_type) ==
    \E k \in DOMAIN m : \E j \in DOMAIN m[k] : sensor_type \in DOMAIN m[k][j]

\* OutbackMate3.get_aggregated_value(sensor_type)
get_aggregated_value(sensor_type) ==
    FieldTotal(inverters, sensor_type) + FieldTotal(charge_controllers, sensor_type)

\* OutbackMate3.has_aggregated_value(sensor_type)
has_aggregated_value(sensor_type) ==
    FieldHeld(inverters, sensor_type) \/ FieldHeld(charge_controllers, sensor_type)

\* OutbackSystemSensor.native_value for total_solar_power and
\* total_grid_power: data.get(field, 0) summed over the readings
SystemSensor_native_value(sensor_type) ==
    IF sensor_type = "total_solar_power" THEN FieldTotal(charge_controllers, "pv_power")
    ELSE IF sensor_type = "total_grid_power" THEN FieldTotal(inverters, "grid_power")
    ELSE 0

\* The 0-based places of grid_power in an inverter list and of solar_power
\* in a charge-controller list of device_data
GridPowerIndex == 10

SolarPowerIndex == 6

\* The keys of device_data that carry the tag after the 12 characters of the
\* controller identity
KeysTagged(tag) ==
    {key \in DOMAIN device_data :
        Len(key) >= 12 + Len(tag) /\ SubSeq(key, 13, 12 + Len(tag)) = tag}

\* The sum of the field at 0-based place idx over the lists of device_data
\* whose key carries the tag
RegistryTotal(tag, idx) ==
    SumOver([key \in KeysTagged(tag) |-> device_data[key][idx + 1].n], KeysTagged(tag))

\* C15: in the custom_components variant the combined metrics are computed
\* from the registry that ingestion writes: the system-wide grid power and
\* solar power, and the aggregated value of these fields, equal the sum of
\* the field over the readings held in device_data, and the aggregated value
\* is available once a reading with a non-zero value is held.
C15_CombinedMetricsSumRegistry ==
    variant = "cc" =>
      /\ SystemSensor_native_value("total_grid_power")
           = RegistryTotal(InverterKeyTag, GridPowerIndex)
      /\ SystemSensor_native_value("total_solar_power")
           = RegistryTotal(CcKeyTag, SolarPowerIndex)
      /\ get_aggregated_value("grid_power") = RegistryTotal(InverterKeyTag, GridPowerIndex)
      /\ RegistryTotal(InverterKeyTag, GridPowerIndex) # 0
           => has_aggregated_value("grid_power")

\* The 0-based place in the device_data list that the sensor of each type
\* reads (OutbackInverterSensor and OutbackChargeControllerSensor)
InverterSensorIndex ==
    [inverter_current |-> 3, charger_current |-> 4, grid_current |-> 5,
     grid_voltage |-> 6, output_voltage |-> 7, inverter_power |-> 8,
     charger_power |-> 9, grid_power |-> 10, inverter_mode |-> 11, ac_mode |-> 12]

ChargeControllerSensorIndex ==
    [solar_current |-> 3, solar_voltage |-> 4, battery_voltage |-> 5,
     solar_power |-> 6, charge_mode |-> 7]

\* The sensor types whose value is returned as it is stored, not as float(..)
TextSensorTypes == {"inverter_mode", "ac_mode", "charge_mode"}

\* The outcomes of native_value: None, or a value
NoValue == [none |-> TRUE, v |-> IntVal(0)]

Value(v) == [none |-> FALSE, v |-> v]

\* float(x) for an element x of a device_data list
FloatOf(x) ==
    IF x.t = "str"
    THEN Only({ IF r.ok THEN Value(FloatVal(r.v)) ELSE NoValue : r \in {ParseFloat(x.s)} })
    ELSE Value(FloatVal(x.n))

\* The body of native_value once device_key is built
Sensor_read(device_key, sensor_type, index) ==
    IF device_key \notin DOMAIN device_data \/ device_data[device_key] = <<>>
    THEN NoValue
    ELSE IF sensor_type \notin DOMAIN index THEN NoValue
    ELSE IF index[sensor_type] >= Len(device_data[device_key]) THEN NoValue
    ELSE IF sensor_type \in TextSensorTypes
         THEN Value(device_data[device_key][index[sensor_type] + 1])
    ELSE FloatOf(device_data[device_key][index[sensor_type] + 1])

\* OutbackInverterSensor.native_value
InverterSensor_native_value(mac_address, device_id, sensor_type) ==
    Sensor_read(mac_address \o InverterKeyTag \o PyStrOfInt(device_id),
                sensor_type, InverterSensorIndex)

\* OutbackChargeControllerSensor.native_value
ChargeControllerSensor_native_value(mac_address, device_id, sensor_type) ==
    Sensor_read(mac_address \o CcKeyTag \o PyStrOfInt(device_id),
                sensor_type, ChargeControllerSensorIndex)

\* OutbackInverterSensor.available and OutbackChargeControllerSensor.available
Sensor_available == TRUE

\* No record has stored the field at 0-based place idx of the key: the key
\* is absent, or the place still holds the 0 of the initial list
Unpopulated(device_key, idx) ==
    \/ device_key \notin DOMAIN device_data
    \/ device_data[device_key][idx + 1] = IntVal(0)

\* The device numbers the sensors are read for
SensorDeviceIds == 1..2

\* C16: in the custom_components variant, for a device key and field that
\* no ingested record has populated, the read of the inverter or
\* charge-controller sensor gives no value, never a number or the
\* placeholder of the initial list.
C16_UnpopulatedFieldHasNoValue ==
    variant = "cc" =>
      \A mac_address \in {MacA, MacB}, device_id \in SensorDeviceIds :
        /\ \A sensor_type \in DOMAIN InverterSensorIndex :
             Unpopulated(mac_address \o InverterKeyTag \o PyStrOfInt(device_id),
                         InverterSensorIndex[sensor_type])
             => InverterSensor_native_value(mac_address, device_id, sensor_type).none
        /\ \A sensor_type \in DOMAIN ChargeControllerSensorIndex :
             Unpopulated(mac_address \o CcKeyTag \o PyStrOfInt(device_id),
                         ChargeControllerSensorIndex[sensor_type])
             => ChargeControllerSensor_native_value(mac_address, device_id,
                                                    sensor_type).none

-----------------------------------------------------------------------------
(* The custom_components registry under two threads: _process_inverter and  *)
(* _process_charge_controller run statement by statement in the executor    *)
(* thread while native_value of a sensor runs on the event loop.  Here      *)
(* self.device_data maps a key to a list object (refs), the objects are     *)
(* kept in heap, and device_data is what the dict holds by value.  A dict   *)
(* lookup, a dict store and a list item store are each one step.            *)

\* The records the executor is given, each the one record of its datagram
ThreadRecords ==
    {CCInvStatus1, CCInvPower1, CCInvBadPower, CCInvShort, CCCcStatus1, CCCcPower1}

\* The keys and 0-based places the sensors read
ThreadSensors ==
    { [key |-> MacA \o InverterKeyTag \o <<"1">>, index |-> 10],
      [key |-> MacA \o InverterKeyTag \o <<"1">>, index |-> 11],
      [key |-> MacA \o CcKeyTag \o <<"1">>, index |-> 6] }

\* The dict self.device_data by value
Held(h, r) == [k \in DOMAIN r |-> h[r[k]]]

\* The writer mutating the stored list itself (no list(..) around the
\* lookup): the variant against which C21 is tested
StoredItself(key, n) ==
    IF key \in DOMAIN refs THEN [heap |-> heap, ref |-> refs[key]]
    ELSE [heap |-> Append(heap, Zeros(n)), ref |-> Len(heap) + 1]

\* device_data = list(self.device_data.get(device_key, [0] * n)): a new list
\* object with the items of the stored one
CopyOfStored(key, n) ==
    [heap |-> Append(heap, IF key \in DOMAIN refs THEN heap[refs[key]] ELSE Zeros(n)),
     ref |-> Len(heap) + 1]

\* The item stores a record asks for, in program order, or none when the
\* record is too short
ItemStores(kind, values) ==
    IF kind = "inverter"
    THEN IF Len(values) < 15 THEN <<>>
         ELSE IF values[1] = <<"1">> THEN <<11, 12>>
         ELSE IF values[1] = <<"2">> THEN <<3, 4, 5, 6, 7, 8, 9, 10>>
         ELSE <<>>
    ELSE IF Len(values) < 8 THEN <<>>
         ELSE IF values[1] = <<"4">> THEN <<7>>
         ELSE IF values[1] = <<"5">> THEN <<3, 4, 5, 6>>
         ELSE <<>>

\* len(values) >= 15, or 8 for a charge controller
LongEnough(kind, values) == Len(values) >= (IF kind = "inverter" THEN 15 ELSE 8)

\* The record is status data: its items are stored as text, without float(..)
IsStatus(values) == values[1] \in {<<"1">>, <<"4">>}

ThreadStep(h, r, w, rd) ==
    /\ heap' = h
    /\ refs' = r
    /\ writer' = w
    /\ reader' = rd
    /\ device_data' = Held(h, r)
    /\ UNCHANGED <<variant, inverters, charge_controllers, device_counts,
                   discovered_devices, discovery_info, add_entities_callback,
                   setup_tasks, setup_pc, last>>
    /\ UNCHANGED lvars

\* _process_data, in the executor, calls _process_inverter or
\* _process_charge_controller for the record of a datagram with header
\* [AABBCC-DDEEFF]
WriterCall ==
    /\ variant = "cc"
    /\ writer.pc \in {"idle", "done"}
    /\ ndatagrams < MaxDatagrams
    /\ ndatagrams' = ndatagrams + 1
    /\ \E values \in ThreadRecords :
         \E kind \in {IF values[1] \in {<<"1">>, <<"2">>} THEN "inverter" ELSE "cc"} :
            ThreadStep(heap, refs,
                [pc |-> "copy", kind |-> kind, device_no |-> IntAt(values, 1).v,
                 values |-> values,
                 key |-> MacA \o (IF kind = "inverter" THEN InverterKeyTag ELSE CcKeyTag)
                              \o PyStrOfInt(IntAt(values, 1).v),
                 ref |-> NoObject, todo |-> <<>>, pre |-> device_data],
                reader)

\* device_data = list(self.device_data.get(device_key, [0] * n)), then the
\* test of len(values): a record that is too short ends the call
WriterCopy ==
    /\ writer.pc = "copy"
    /\ \E c \in {CopyOfStored(writer.key, IF writer.kind = "inverter" THEN 15 ELSE 10)} :
         ThreadStep(c.heap, refs,
             [writer EXCEPT !.ref = c.ref,
                            !.todo = ItemStores(writer.kind, writer.values),
                            !.pc = IF LongEnough(writer.kind, writer.values)
                                   THEN "stores" ELSE "done"],
             reader)
    /\ UNCHANGED ndatagrams

\* device_data[i] = values[i] or device_data[i] = float(values[i]) for the
\* next i; a float(..) that raises ends the call in the except clause
WriterStoreItem ==
    /\ writer.pc = "stores"
    /\ writer.todo # <<>>
    /\ \E i \in {Head(writer.todo)} :
         \E x \in {IF IsStatus(writer.values)
                   THEN [ok |-> TRUE, v |-> StrVal(writer.values[i + 1])]
                   ELSE [ok |-> FloatAt(writer.values, i).ok,
                         v |-> FloatVal(FloatAt(writer.values, i).v)]} :
            IF x.ok
            THEN ThreadStep([heap EXCEPT ![writer.ref][i + 1] = x.v], refs,
                            [writer EXCEPT !.todo = Tail(@)], reader)
            ELSE ThreadStep(heap, refs, [writer EXCEPT !.pc = "done"], reader)
    /\ UNCHANGED ndatagrams

\* self.device_data[device_key] = device_data
WriterPublish ==
    /\ writer.pc = "stores"
    /\ writer.todo = <<>>
    /\ ThreadStep(heap, DictPut(refs, writer.key, writer.ref),
                  [writer EXCEPT !.pc = "done"], reader)
    /\ UNCHANGED ndatagrams

\* native_value: device_data = self._mate3.device_data.get(device_key)
ReaderGet ==
    /\ variant = "cc"
    /\ reader.pc = "idle"
    /\ \E s \in ThreadSensors :
         \E ref \in {DictGet(refs, s.key, NoObject)} :
            ThreadStep(heap, refs, writer,
                [pc |-> "got", key |-> s.key, index |-> s.index, ref |-> ref,
                 seen |-> IF ref = NoObject THEN <<>> ELSE heap[ref],
                 during |-> writer, result |-> reader.result])
    /\ UNCHANGED ndatagrams

\* native_value: if not device_data: return None; return float(device_data[i])
\* or device_data[i]
ReaderReturn ==
    /\ reader.pc = "got"
    /\ ThreadStep(heap, refs, writer,
           [reader EXCEPT
               !.pc = "idle",
               !.result = IF reader.ref = NoObject \/ heap[reader.ref] = <<>>
                          THEN NoValue
                          ELSE IF reader.index \in {7, 11, 12}
                               THEN Value(heap[reader.ref][reader.index + 1])
                          ELSE FloatOf(heap[reader.ref][reader.index + 1])])
    /\ UNCHANGED ndatagrams

ThreadNext ==
    \/ WriterCall
    \/ WriterCopy
    \/ WriterStoreItem
    \/ WriterPublish
    \/ ReaderGet
    \/ ReaderReturn

ThreadSpec == Init /\ [][ThreadNext]_vars

-----------------------------------------------------------------------------
(* Properties of the listener, stated for ListenerSpec *)

\* C17: while no stop is requested, a receive error or a failure inside
\* _process_data does not end the receive loop of either variant: a task
\* that has had a receive error has not left _listen by it; after every
\* receive error the loop eventually waits for a datagram again; and a
\* well-formed datagram received after an error is decoded and stored.
C17_ErrorsDoNotEndLoop ==
    /\ [](\A i \in Tasks : pc[i] = "raised" => ~erred[i])
    /\ \A i \in Tasks :
         (erred[i] /\ ~stopped) ~> ((pc[i] = Receiving /\ ~erred[i]) \/ stopped)
    /\ []((RootStep /\ nerrors > 0 /\ WellFormedDatagram(last.p)) =>
            \A k \in 1..Len(last.p.recs) : Stored(last.p.recs[k]))
    /\ []((last.op = "cc_process_data" /\ nerrors > 0 /\ BeginsWithHeader(last.p)) =>
            /\ MacA \in discovered_devices
            /\ DOMAIN device_data # {})

\* The root loop has had a receive error and a datagram with a failing
\* record, and has then stored a well-formed datagram and waits again
C17_Witness ==
    /\ RootStep /\ nerrors > 0 /\ ~stopped
    /\ last.p.recs = <<RootCcA, RootInvB>>
    /\ DOMAIN last.pre.inv = {1} /\ "ac_mode" \notin DOMAIN last.pre.inv[1]
    /\ inverters[1] = DecodedInverter(RootInvB)
    /\ pc[1] = "recv" /\ ~erred[1]

\* Every _listen task has left its loop and no socket a task created is
\* still open
ListenerClosed ==
    \A i \in Tasks :
        /\ pc[i] \in {"none", "exited", "raised"}
        /\ sock[i] \in {"none", "closed"}

\* C18: stop is clean in every interleaving of start_listening, the startup
\* of the listener task and stop_listening: once stop_listening has been
\* called, eventually every receive loop has exited and every socket the
\* listener opened is closed.
C18_CleanStop == stopped ~> ListenerClosed

\* C19: a bind failure at startup is surfaced to the caller: when the bind
\* in _listen of a task has failed, the call that started the task
\* (start_listening, or async_setup_entry in the root variant) has not
\* reported success: it has neither returned normally nor returned True.
C19_BindFailureSurfaced ==
    \A i \in Tasks :
        pc[i] = "raised" => start_result[i] \notin {"returned", "returned_true"}

\* C20: within one receive loop datagrams are processed one at a time: a
\* task has at most one _process_data call under way, and whenever it waits
\* for a datagram (or sleeps before it does) the work for every datagram it
\* has received is complete.
C20_OneDatagramAtATime ==
    \A i \in Tasks :
        /\ Len(inflight[i]) <= 1
        /\ pc[i] \in {"recv", "recvfrom", "sleep"} => inflight[i] = <<>>

\* The custom_components loop has processed one datagram and awaits the
\* _process_data job of the next
C20_Witness ==
    /\ variant = "cc"
    /\ ndatagrams = 1 /\ last.op = "cc_process_data"
    /\ pc[1] = "processing"
    /\ Len(inflight[1]) = 1

-----------------------------------------------------------------------------
(* Properties of the registry under two threads, stated for ThreadSpec *)

\* device_data as the call w gives it when it is applied to w.pre at once
CallApplied(w) ==
    IF w.kind = "inverter"
    THEN CC_process_inverter(w.pre, w.device_no, w.values, MacA)
    ELSE CC_process_charge_controller(w.pre, w.device_no, w.values, MacA)

\* What native_value returns for the list data read at the 0-based place i
ReadOf(data, i) ==
    IF data = <<>> THEN NoValue
    ELSE IF i \in {7, 11, 12} THEN Value(data[i + 1])
    ELSE FloatOf(data[i + 1])

\* C21: reads are safe against the single concurrent writer: while
\* _process_inverter or _process_charge_controller works on a record in the
\* executor thread, device_data holds the readings from before the record,
\* and after the call those the record gives; the list a sensor has looked
\* up does not change while the sensor reads it, it is the device's reading
\* from before the record or the one after it, and the value returned is
\* taken from it.
C21_ReadersSeeWholeReadings ==
    /\ device_data = Held(heap, refs)
    /\ writer.pc \in {"copy", "stores"} => device_data = writer.pre
    /\ writer.pc = "done" => device_data = CallApplied(writer)
    /\ (reader.pc = "got" /\ reader.ref # NoObject) => heap[reader.ref] = reader.seen
    /\ (reader.ref # NoObject /\ reader.during.pc # "idle") =>
         reader.seen \in {DictGet(reader.during.pre, reader.key, <<>>),
                          DictGet(CallApplied(reader.during), reader.key, <<>>)}
    /\ (reader.pc = "idle" /\ reader.key # <<>>) =>
         reader.result = ReadOf(reader.seen, reader.index)

\* A sensor has looked up the reading of inverter 1 while the executor has
\* stored some, not all, items of a power record for it on its copy
C21_Witness ==
    /\ reader.pc = "got" /\ reader.ref # NoObject
    /\ writer.pc = "stores" /\ writer.values = CCInvPower1
    /\ Len(writer.todo) \in 1..7
    /\ reader.key = writer.key
    /\ heap[writer.ref] # heap[reader.ref]
    /\ heap[reader.ref][12] = StrVal(<<"3">>)

-----------------------------------------------------------------------------
(* Properties of the registry, stated for Spec *)

\* Every reading of the slot map m is a reading of the slot map n
ReadingsKept(m, n) == \A k \in DOMAIN m : \E j \in DOMAIN n : n[j] = m[k]

\* C22: in the root variant readings are kept per controller identity: when
\* a datagram of controller [112233-445566] follows the first datagram of
\* controller [AABBCC-DDEEFF], every reading the first has stored is still
\* stored afterwards, no field of it changed, so an inverter in slot 1 of
\* each controller gives two distinct stored readings.
C22_ReadingsPerController ==
    [][ ( /\ RootStep /\ last.p.hdr = HeaderA
          /\ last.pre.inv = EmptyDict /\ last.pre.cc = EmptyDict
          /\ last'.op = "root_process_data" /\ last'.p.hdr = HeaderB )
        => /\ ReadingsKept(inverters, inverters')
           /\ ReadingsKept(charge_controllers, charge_controllers') ]_vars

\* The placeholder mode label
UnknownLabel == StrVal(<<"u", "n", "k", "n", "o", "w", "n">>)

\* The 0-based places of the mode fields in the list of a key
ModePlaces(key) ==
    IF key \in KeysTagged(InverterKeyTag) THEN {11, 12}
    ELSE IF key \in KeysTagged(CcKeyTag) THEN {7}
    ELSE {}

\* The datagram holds a status record: type 1 or type 4
HasStatusRecord(p) ==
    \E k \in 1..Len(p.recs) : p.recs[k] # <<>> /\ p.recs[k][1] \in {<<"1">>, <<"4">>}

\* C23: in the custom_components variant a device created by its first
\* record carries the placeholder label "unknown" in every mode field
\* (inverter_mode, ac_mode, charge_mode) until a status record for it
\* arrives: a mode field always holds a label, and in a list created by a
\* datagram without status records it holds "unknown".
C23_PlaceholderModeUnknown ==
    /\ \A key \in DOMAIN device_data : \A i \in ModePlaces(key) :
         device_data[key][i + 1].t = "str"
    /\ (CCStep /\ ~HasStatusRecord(last.p)) =>
         \A key \in DOMAIN device_data \ DOMAIN last.pre.dd :
            \A i \in ModePlaces(key) : device_data[key][i + 1] = UnknownLabel

\* No record of the datagram has an empty field
NoEmptyField(p) ==
    \A k \in 1..Len(p.recs) : \A i \in 1..Len(p.recs[k]) : p.recs[k][i] # <<>>

\* The controller identity of a datagram that begins with a header
IdentityOf(p) == Remove(SubSeq(p.hdr, 2, 14), "-")

\* The device key a record of the datagram p is stored under
KeyOf(p, rec) ==
    IdentityOf(p)
      \o (IF rec[1] \in {<<"1">>, <<"2">>} THEN InverterKeyTag ELSE CcKeyTag)
      \o PyStrOfInt(IntAt(rec, 1).v)

\* The 0-based places of the power fields in the list of a key
PowerPlaces(key) ==
    IF key \in KeysTagged(InverterKeyTag) THEN 3..10
    ELSE IF key \in KeysTagged(CcKeyTag) THEN 3..6
    ELSE {}

\* A status record, a power record: complete (15 fields for an inverter, 8
\* for a charge controller, none empty), the power fields numbers
CompleteRecord(rec) ==
    /\ Len(rec) >= 3
    /\ \A i \in 1..Len(rec) : rec[i] # <<>>
    /\ IntAt(rec, 1).ok
    /\ \/ rec[1] \in {<<"1">>, <<"2">>} /\ Len(rec) >= 15
       \/ rec[1] \in {<<"4">>, <<"5">>} /\ Len(rec) >= 8

StatusRecord(rec) == CompleteRecord(rec) /\ rec[1] \in {<<"1">>, <<"4">>}

PowerRecord(rec) ==
    /\ CompleteRecord(rec) /\ rec[1] \in {<<"2">>, <<"5">>}
    /\ \A i \in (IF rec[1] = <<"2">> THEN 3..10 ELSE 3..6) : FloatAt(rec, i).ok

\* The position in p of the last status record (status = TRUE) or power
\* record (status = FALSE) for the key, 0 when p holds none
LastRecordFor(p, key, status) ==
    Only({ IF ks = {} THEN 0 ELSE CHOOSE k \in ks : \A j \in ks : j <= k :
           ks \in {{k \in 1..Len(p.recs) :
                      /\ IF status THEN StatusRecord(p.recs[k]) ELSE PowerRecord(p.recs[k])
                      /\ KeyOf(p, p.recs[k]) = key}} })

\* The item at the 0-based place i after the datagram p: that of record k
\* when k > 0, else the item old
MergedItem(p, k, i, status, old) ==
    IF k = 0 THEN old
    ELSE IF status THEN StrVal(p.recs[k][i + 1])
    ELSE FloatVal(FloatAt(p.recs[k], i).v)

\* C24: merge-on-slot in the custom_components variant: a status record
\* (type 1 / type 4) changes only the mode fields of its device's list and a
\* power record (type 2 / type 5) only the power fields; after a datagram
\* each mode field is that of the datagram's last status record for the
\* device, each power field that of its last power record, and every field
\* without such a record is as stored before (0 in a new list), so that a
\* status and a power record in either order leave the modes of the one and
\* the power values of the other.  Stated for records without empty fields.
C24_MergeOnSlot ==
    (last.op = "cc_process_data" /\ BeginsWithHeader(last.p) /\ NoEmptyField(last.p)) =>
      \A key \in DOMAIN device_data :
        \A i \in 0..(Len(device_data[key]) - 1) :
          device_data[key][i + 1] =
            MergedItem(last.p,
                       IF i \in ModePlaces(key) THEN LastRecordFor(last.p, key, TRUE)
                       ELSE IF i \in PowerPlaces(key) THEN LastRecordFor(last.p, key, FALSE)
                       ELSE 0,
                       i, i \in ModePlaces(key),
                       IF key \in DOMAIN last.pre.dd THEN last.pre.dd[key][i + 1]
                       ELSE IntVal(0))

\* A power record for inverter 1 has arrived in the datagram after its
\* status record: the modes of the status record are still held
C24_Witness ==
    /\ last.op = "cc_process_data" /\ BeginsWithHeader(last.p)
    /\ last.p.recs = <<CCInvPower1>>
    /\ KeyOf(last.p, CCInvPower1) \in DOMAIN last.pre.dd
    /\ last.pre.dd[KeyOf(last.p, CCInvPower1)][12] = StrVal(<<"3">>)
    /\ last.pre.dd[KeyOf(last.p, CCInvPower1)][4] = IntVal(0)
    /\ device_data[KeyOf(last.p, CCInvPower1)][12] = StrVal(<<"3">>)
    /\ device_data[KeyOf(last.p, CCInvPower1)][4] = FloatVal(30)

\* A status record for charge controller 1 has arrived in the datagram
\* after its power record: the power values are still held
C24_WitnessStatusAfterPower ==
    /\ last.op = "cc_process_data" /\ BeginsWithHeader(last.p)
    /\ last.p.recs = <<CCCcStatus1>>
    /\ KeyOf(last.p, CCCcStatus1) \in DOMAIN last.pre.dd
    /\ last.pre.dd[KeyOf(last.p, CCCcStatus1)][4] = FloatVal(60)
    /\ device_data[KeyOf(last.p, CCCcStatus1)][4] = FloatVal(60)
    /\ device_data[KeyOf(last.p, CCCcStatus1)][8] = StrVal(<<"2">>)

\* A record of type 1, 2, 4 or 5 that is too short (fewer than 15 fields for
\* an inverter, 8 for a charge controller) or is a power record with a
\* power field that is not a number
RejectedRecord(rec) ==
    /\ Len(rec) >= 3 /\ IntAt(rec, 1).ok
    /\ \/ rec[1] \in {<<"1">>, <<"2">>} /\ Len(rec) < 15
       \/ rec[1] \in {<<"4">>, <<"5">>} /\ Len(rec) < 8
       \/ rec[1] = <<"2">> /\ Len(rec) >= 15 /\ \E i \in 3..10 : ~FloatAt(rec, i).ok
       \/ rec[1] = <<"5">> /\ Len(rec) >= 8 /\ \E i \in 3..6 : ~FloatAt(rec, i).ok

\* The records of p for the key are all rejected, and there is one
OnlyRejectedFor(p, key) ==
    /\ \E k \in 1..Len(p.recs) : RejectedRecord(p.recs[k]) /\ KeyOf(p, p.recs[k]) = key
    /\ \A k \in 1..Len(p.recs) :
         (Len(p.recs[k]) >= 3 /\ IntAt(p.recs[k], 1).ok /\ KeyOf(p, p.recs[k]) = key)
         => RejectedRecord(p.recs[k])

\* The keys the records of p name
KeysNamed(p) ==
    {KeyOf(p, p.recs[k]) : k \in {j \in 1..Len(p.recs) : RejectedRecord(p.recs[j])}}

\* C25: in the custom_components variant _process_inverter and
\* _process_charge_controller are all-or-nothing: a record that is too short
\* or has a power field that is not a number leaves device_data as it was:
\* the list of its key has no field changed, and no key is created for it.
C25_RejectedRecordAllOrNothing ==
    (last.op = "cc_process_data" /\ BeginsWithHeader(last.p) /\ NoEmptyField(last.p)) =>
      \A key \in KeysNamed(last.p) :
        OnlyRejectedFor(last.p, key) =>
          /\ key \in DOMAIN device_data <=> key \in DOMAIN last.pre.dd
          /\ key \in DOMAIN device_data => device_data[key] = last.pre.dd[key]

\* A power record whose field 6 is not a number has arrived for inverter 1,
\* whose power values were stored before, and has left them as they were
C25_Witness ==
    /\ last.op = "cc_process_data" /\ BeginsWithHeader(last.p)
    /\ last.p.recs = <<CCInvBadPower>>
    /\ KeyOf(last.p, CCInvBadPower) \in DOMAIN last.pre.dd
    /\ device_data[KeyOf(last.p, CCInvBadPower)][4] = FloatVal(30)
    /\ device_data = last.pre.dd

\* A record that is too short has arrived for a device not seen before, and
\* no key was created
C25_WitnessShort ==
    /\ last.op = "cc_process_data" /\ BeginsWithHeader(last.p)
    /\ last.p.recs \in {<<CCInvShort>>, <<CCCcShort>>}
    /\ device_data = EmptyDict
    /\ discovered_devices # {}

-----------------------------------------------------------------------------
(* Properties of the listener, stated for RestartSpec and ListenerSpec *)

\* The receive loop of task i is active: it waits for a datagram on a bound
\* socket, or processes one
LoopActive(i) ==
    \/ pc[i] = "processing"
    \/ /\ pc[i] = Receiving
       /\ waiting_on[i] # NoSocket
       /\ sock[waiting_on[i]] = "bound"

\* C26: for every sequence of start_listening and stop_listening calls on
\* one instance, start called twice and start after stop included, at most
\* one receive loop is active at any time.
C26_AtMostOneLoop == Cardinality({i \in Tasks : LoopActive(i)}) <= 1

\* C27: once stop_listening has returned (and start_listening has not been
\* called again), the registry is frozen: no step applies a datagram to
\* inverters, charge_controllers or device_data, a datagram whose receive or
\* processing was under way at the time of the stop included.
C27_FrozenAfterStop ==
    [][ (stopped /\ ~running) =>
          /\ inverters' = inverters
          /\ charge_controllers' = charge_controllers
          /\ device_data' = device_data ]_vars

\* The state of the custom_components registry before the last step
CCStateBefore ==
    [dd |-> last.pre.dd, discovered |-> last.pre.discovered, info |-> last.pre.info,
     callback |-> last.pre.callback, tasks |-> last.pre.tasks]

\* C28: the two ingestion paths of the custom_components variant agree: for
\* every message that begins with a header, with one device record or with
\* several, device_data after handle_connection is device_data as
\* _process_data gives it from the same state: the same keys with the same
\* controller identity, the same stored fields.
C28_IngestionPathsAgree ==
    (last.op = "cc_handle_connection" /\ BeginsWithHeaderAfterStrip(last.p)) =>
      \A r \in {CC_process_data(CCStateBefore, Wire(last.p))} : device_data = r.dd

\* The comma-separated fields of a record as they appear on the wire, the
\* empty ones included
WireFields(rec) == Split(Join(rec, ","), ",")

\* The record is an accepted power record: type 2 or 5, and the list of its
\* key after the datagram is the one the record gives from the list before
AcceptedPowerRecord(p, rec) ==
    /\ Len(rec) >= 3
    /\ rec[1] \in {<<"2">>, <<"5">>}
    /\ IntAt(rec, 1).ok
    /\ KeyOf(p, rec) \in DOMAIN device_data
    /\ (KeyOf(p, rec) \in DOMAIN last.pre.dd
          => device_data[KeyOf(p, rec)] # last.pre.dd[KeyOf(p, rec)])

\* C29: field positions are preserved by the custom_components
\* _process_data: after a datagram with one power record (type 2 or 5) that
\* is accepted, the value stored at each power index i of the device's list
\* is the i-th comma-separated field of the record as it appeared on the
\* wire, also when a field of the record is empty.
C29_FieldPositionsPreserved ==
    ( /\ last.op = "cc_process_data" /\ BeginsWithHeader(last.p)
      /\ Len(last.p.recs) = 1
      /\ AcceptedPowerRecord(last.p, last.p.recs[1]) )
    => \A i \in PowerPlaces(KeyOf(last.p, last.p.recs[1])) :
         /\ FloatAt(WireFields(last.p.recs[1]), i).ok
         /\ device_data[KeyOf(last.p, last.p.recs[1])][i + 1]
              = FloatVal(FloatAt(WireFields(last.p.recs[1]), i).v)

\* C30: in the custom_components variant every controller identity in
\* discovered_devices has had its entity setup scheduled, in every reachable
\* state; a controller whose first datagram arrives while no add-entities
\* callback is registered is not marked discovered by it.
C30_DiscoveredImpliesSetupScheduled ==
    /\ \A id \in discovered_devices : \E i \in 1..Len(setup_tasks) : setup_tasks[i] = id
    /\ ( /\ last.op = "cc_process_data" /\ BeginsWithHeader(last.p)
         /\ ~last.pre.callback
         /\ IdentityOf(last.p) \notin last.pre.discovered )
       => IdentityOf(last.p) \notin discovered_devices

=============================================================================
